---- MODULE Spec2Model ----
(***************************************************************************)
(* Model of the clinical rule engine and recurring-task scheduler of the   *)
(* ward-care dashboard (src/app.py) on the database that                   *)
(* src/ehr_bezugspflege_sqlite.py creates and seeds.                       *)
(*                                                                         *)
(* Time.  The clock `now` counts whole hours of local wall-clock time; all *)
(* timestamps the program writes have minute resolution, and two events in *)
(* the same clock value model two events within the same minute.  A        *)
(* timestamp is a record [kind, wall]: the kind says whether the text      *)
(* carries a UTC offset (isoformat of now_local()) or not (strftime, or    *)
(* the seed script's datetime.now()).  SQLite's datetime() normalises a    *)
(* text with offset to UTC and takes a text without as it is; SqlDatetime  *)
(* models that.                                                            *)
(*                                                                         *)
(* Text.  TLA+ has no substring operation, so the texts the program        *)
(* examines are drawn from finite sets and the two string operations the   *)
(* code uses (lower() and `in`) are tables computed from the literal       *)
(* strings: Lower and Contains.  The characters U+2082 and U+2013 of the   *)
(* source strings are written 2 and - here, and the warning sign that      *)
(* starts the sepsis alert text is left out.                               *)
(***************************************************************************)
EXTENDS Integers, Sequences, FiniteSets, TLC

VARIABLES
    now,                \* local wall clock, in hours
    session,            \* session["current_nurse_id"], 0 when absent
    patients,           \* ids of the rows of table patients
    bezugspflege,       \* patients.bezugspflege_id, by patient id
    medications,        \* rows of table medications, in rowid order
    assessments,        \* rows of table assessments, in rowid order
    nurse_notes,        \* rows of table nurse_notes, in rowid order
    patient_priorities, \* rows of table patient_priorities, in rowid order
    ai_tasks,           \* rows of table ai_tasks, in rowid order
    ai_alerts,          \* rows of table ai_alerts, in rowid order
    nextTaskId,         \* next AUTOINCREMENT id of ai_tasks
    nextMedId,          \* next AUTOINCREMENT id of medications
    lastOp,             \* history: the last operation (name and argument)
    prevTasks,          \* history: ai_tasks before the completing toggle that
                        \* the last operation was, or that it undid; else <<>>
    prevPriorities,     \* history: patient_priorities before the last recompute
    prevMeds,           \* history: medications before the dose action that
                        \* the last operation was; else <<>>
    calls               \* the calls of generate_priorities_and_tasks that are
                        \* under way on connections of their own: position
                        \* and the rows read so far, by caller

vars == <<now, session, patients, bezugspflege, medications, assessments,
          nurse_notes, patient_priorities, ai_tasks, ai_alerts, nextTaskId,
          nextMedId, lastOp, prevTasks, prevPriorities, prevMeds, calls>>

----------------------------------------------------------------------------
(* Bounds of the model *)

MaxTime == 2        \* the clock stops here
MaxAssess == 2      \* assessments rows
MaxNotes == 3       \* nurse_notes rows
MaxTaskId == 6      \* ai_tasks ids handed out, scheduler specification
MaxGeneratedId == 13 \* ai_tasks ids handed out, priority specification
MaxMedId == 7       \* medications ids handed out, dose specification
MaxUndoMedId == 8   \* medications ids handed out, undo specification
MaxScoredMedId == 6 \* medications ids handed out, scoring specification
MaxTextId == 2      \* ai_tasks and medications ids handed out, text specification

----------------------------------------------------------------------------
(* Values *)

NULL == -1          \* Python None / SQL NULL in a numeric column
TzOffset == 1       \* UTC offset of Europe/Berlin (winter), in hours

Range(s) == {s[i] : i \in 1..Len(s)}

Max(a, b) == IF a >= b THEN a ELSE b
Min(a, b) == IF a <= b THEN a ELSE b

\* A timestamp column: kind "aware" is a text with UTC offset, "naive" one
\* without, "none" is NULL or the empty text, "text" a text that is no time.
Aware(t) == [kind |-> "aware", wall |-> t]
Naive(t) == [kind |-> "naive", wall |-> t]
NoTime == [kind |-> "none", wall |-> 0]
BadTime == [kind |-> "text", wall |-> 0]

\* now_local().isoformat(timespec="minutes")
NowIso(t) == Aware(t)
\* now_local().strftime("%Y-%m-%d %H:%M")
NowStrftime(t) == Naive(t)

\* datetime.fromisoformat(text) succeeds
Parses(d) == d.kind \in {"aware", "naive"}

\* SQLite datetime(text): NULL unless the text is a time (SqlValid); UTC for
\* a text with offset, the text's own value without
SqlValid(d) == d.kind \in {"aware", "naive"}
SqlDatetime(d) == IF d.kind = "aware" THEN d.wall - TzOffset ELSE d.wall

\* datetime.fromisoformat(text) + timedelta(hours=h), isoformat again
PlusHours(d, h) == [d EXCEPT !.wall = d.wall + h]

----------------------------------------------------------------------------
(* Text tables *)

LowerTable ==
    ( "Bisoprolol" :> "bisoprolol" @@ "Furosemid" :> "furosemid"
   @@ "Pantoprazol" :> "pantoprazol" @@ "ASS" :> "ass" @@ "Heparin" :> "heparin"
   @@ "Bilanz begonnen, Angehörige aufgeklärt." :> "bilanz begonnen, angehörige aufgeklärt."
   @@ "Kurzatmigkeit bei Bewegung." :> "kurzatmigkeit bei bewegung."
   @@ "Patient kurzatmig bei Belastung, O2 2l." :> "patient kurzatmig bei belastung, o2 2l."
   @@ "Patient ist gestürzt" :> "patient ist gestürzt"
   @@ "Atemnot und Schmerzen" :> "atemnot und schmerzen"
   @@ "verwirrt, fast gefallen" :> "verwirrt, fast gefallen"
   @@ "Patient schläft" :> "patient schläft"
   @@ "Patient hat inhaliert" :> "patient hat inhaliert"
   @@ "Patient gelagert" :> "patient gelagert"
   @@ "SpO2 & AF alle 2h dokumentieren" :> "spo2 & af alle 2h dokumentieren"
   @@ "Oberkörperhochlagerung" :> "oberkörperhochlagerung"
   @@ "RR & Puls alle 2h kontrollieren" :> "rr & puls alle 2h kontrollieren"
   @@ "Lagerung alle 2h dokumentieren" :> "lagerung alle 2h dokumentieren"
   @@ "Sturzrisiko einschätzen" :> "sturzrisiko einschätzen"
   @@ "Orientierungshilfen bereitstellen" :> "orientierungshilfen bereitstellen"
   @@ "Schmerzskala alle 4h erheben" :> "schmerzskala alle 4h erheben"
   @@ "Vitalzeichen nach Standard" :> "vitalzeichen nach standard"
   @@ "Schmerzen täglich nachfragen" :> "schmerzen täglich nachfragen"
   @@ "Gewicht täglich messen" :> "gewicht täglich messen"
   @@ "Inhalation durchgeführt" :> "inhalation durchgeführt"
   @@ "Drainage alle 1h kontrollieren" :> "drainage alle 1h kontrollieren"
   @@ "Verband alle 2 h wechseln" :> "verband alle 2 h wechseln"
   @@ "Verband alle 2h, Hautkontrolle täglich" :> "verband alle 2h, hautkontrolle täglich"
   @@ "Drainage alle 1h und alle 4h prüfen" :> "drainage alle 1h und alle 4h prüfen"
   @@ "Täglich wiegen" :> "täglich wiegen"
   @@ "Nachts" :> "nachts" )

\* str.lower(); a text without capitals is its own lower case
Lower(s) == IF s \in DOMAIN LowerTable THEN LowerTable[s] ELSE s

\* the pairs <<text, keyword>> with keyword a substring of text, over the
\* lower-cased texts of the model
Substr ==
    { <<"kurzatmigkeit bei bewegung.", "kurzatmig">>,
      <<"patient kurzatmig bei belastung, o2 2l.", "kurzatmig">>,
      <<"patient ist gestürzt", "gestürzt">>,
      <<"atemnot und schmerzen", "atemnot">>,
      <<"atemnot und schmerzen", "schmerz">>,
      <<"atemnot und schmerzen", "schmerzen">>,
      <<"verwirrt, fast gefallen", "verwirrt">>,
      <<"verwirrt, fast gefallen", "gefallen">>,
      <<"verwirrt, fast gefallen", "fast gefallen">>,
      \* medication schedules
      <<"1x morgens", "morgens">>,
      <<"2x täglich", "2x täglich">>,
      <<"2x täglich", "täglich">>,
      <<"alle 4h", "alle 4h">>,
      <<"alle 1h", "alle 1h">>,
      <<"alle 2h", "alle 2h">>,
      <<"alle 2 h", "alle 2 h">>,
      <<"1x täglich", "1x täglich">>,
      <<"1x täglich", "täglich">>,
      <<"3x täglich", "3x täglich">>,
      <<"3x täglich", "täglich">>,
      <<"2 x täglich", "2 x täglich">>,
      <<"2 x täglich", "täglich">>,
      <<"3x täglich, alle 4h", "3x täglich">>,
      <<"3x täglich, alle 4h", "täglich">>,
      <<"3x täglich, alle 4h", "alle 4h">>,
      <<"2x täglich morgens", "2x täglich">>,
      <<"2x täglich morgens", "täglich">>,
      <<"2x täglich morgens", "morgens">>,
      <<"abends", "abends">>,
      <<"nachts", "nachts">>,
      \* lines selected in the voice documentation
      <<"patient hat inhaliert", "inhaliert">>,
      <<"patient gelagert", "gelagert">>,
      \* task descriptions, lower-cased by get_default_interval_hours
      <<"spo2 & af alle 2h dokumentieren", "alle 2h">>,
      <<"rr & puls alle 2h kontrollieren", "alle 2h">>,
      <<"lagerung alle 2h dokumentieren", "alle 2h">>,
      <<"schmerzskala alle 4h erheben", "alle 4h">>,
      <<"schmerzen täglich nachfragen", "täglich">>,
      <<"gewicht täglich messen", "täglich">>,
      <<"drainage alle 1h kontrollieren", "alle 1h">>,
      <<"verband alle 2 h wechseln", "alle 2 h">>,
      <<"verband alle 2h, hautkontrolle täglich", "alle 2h">>,
      <<"verband alle 2h, hautkontrolle täglich", "täglich">>,
      <<"drainage alle 1h und alle 4h prüfen", "alle 1h">>,
      <<"drainage alle 1h und alle 4h prüfen", "alle 4h">>,
      <<"täglich wiegen", "täglich">>,
      \* problem labels, as examined by the task catalog
      <<"Hypoxie-Risiko / O2-Überwachung", "Hypoxie">>,
      <<"Atemnot / eingeschränkter Gasaustausch", "Atemnot">>,
      <<"Hypotonie - Kreislauf instabil", "Hypotonie">>,
      <<"Tachykardie / Kreislaufbelastung", "Tachykardie">>,
      <<"Akute Verwirrtheit / Delirrisiko", "Verwirrtheit">>,
      <<"Sturz- und Dekubitusrisiko", "Sturz">>,
      <<"Schmerzen", "Schmerzen">>,
      <<"Starke Schmerzen", "Schmerzen">> }

Contains(text, kw) == <<text, kw>> \in Substr

----------------------------------------------------------------------------
(* IntervalResolver *)

\* variant: "alle 2h" is looked for before "täglich"
IntervalHoursAlleFirst(description) ==
    LET desc == Lower(description) IN
    IF Contains(desc, "alle 2h") \/ Contains(desc, "alle 2 h") THEN 2
    ELSE IF Contains(desc, "täglich") THEN 24
    ELSE IF Contains(desc, "alle 4h") \/ Contains(desc, "alle 4 h") THEN 4
    ELSE IF Contains(desc, "alle 1h") \/ Contains(desc, "alle 1 h") THEN 1
    ELSE 4

\* get_default_interval_hours(description)
get_default_interval_hours(description) ==
    LET desc == Lower(description) IN
    IF Contains(desc, "täglich") THEN 24
    ELSE IF Contains(desc, "alle 2h") \/ Contains(desc, "alle 2 h") THEN 2
    ELSE IF Contains(desc, "alle 4h") \/ Contains(desc, "alle 4 h") THEN 4
    ELSE IF Contains(desc, "alle 1h") \/ Contains(desc, "alle 1 h") THEN 1
    ELSE 4

----------------------------------------------------------------------------
(* Reading the store *)

\* the rows of a table that belong to patient p, in rowid order
OfPatient(rows, p) == SelectSeq(rows, LAMBDA r : r.patient = p)
NotOfPatient(rows, p) == SelectSeq(rows, LAMBDA r : r.patient # p)

\* ORDER BY datetime(created_at) DESC LIMIT 1 over rows with valid
\* created_at: the greatest datetime; among equal datetimes SQLite's sorter
\* returns the row inserted first.  <<>> when there is no row.
LatestRow(rows) ==
    IF rows = <<>> THEN <<>>
    ELSE LET i == CHOOSE i \in 1..Len(rows) :
                    /\ \A j \in 1..Len(rows) :
                         SqlDatetime(rows[j].created_at) <= SqlDatetime(rows[i].created_at)
                    /\ \A j \in 1..(i-1) :
                         SqlDatetime(rows[j].created_at) < SqlDatetime(rows[i].created_at)
         IN <<rows[i]>>

\* SELECT * FROM assessments WHERE patient_id = ? ORDER BY ... LIMIT 1
LatestAssessment(as, p) == LatestRow(OfPatient(as, p))

----------------------------------------------------------------------------
(* AlertEngine: generate_ai_alerts *)

\* Python truth value of a numeric column: None and 0 are false
Truthy(x) == x # NULL /\ x # 0

FEVER == [alert |-> "Fieber: bitte Infekt abklären", severity |-> "warning"]
HYPOXIA == [alert |-> "Schwere Hypoxie! O2-Gabe prüfen", severity |-> "critical"]
HYPOTENSION == [alert |-> "Hypotonie - Gefahr einer Schocksituation", severity |-> "critical"]
TACHYCARDIA == [alert |-> "Tachykardie: mögliche Schmerzen, Fieber oder Hypovolämie", severity |-> "warning"]
SEPSIS == [alert |-> "Sepsisverdacht! Arzt sofort informieren.", severity |-> "critical"]
BETABLOCKER == [alert |-> "Bisoprolol bei niedrigen RR mit Vorsicht verabreichen!", severity |-> "warning"]

\* temperatures are in tenths of a degree Celsius
FeverRule(a) == Truthy(a.temperature) /\ a.temperature >= 385
HypoxiaRule(a) == Truthy(a.oxygen_sat) /\ a.oxygen_sat < 90
\* variant: the hypotension threshold is 70
HypotensionRuleBelow70(a) == Truthy(a.systolic_bp) /\ a.systolic_bp < 70
HypotensionRule(a) == Truthy(a.systolic_bp) /\ a.systolic_bp < 90
TachycardiaRule(a) == Truthy(a.heart_rate) /\ a.heart_rate > 120

Qsofa(a) ==
      (IF Truthy(a.respiration_rate) /\ a.respiration_rate >= 22 THEN 1 ELSE 0)
    + (IF Truthy(a.systolic_bp) /\ a.systolic_bp < 100 THEN 1 ELSE 0)
    + (IF Truthy(a.confusion) /\ a.confusion >= 5 THEN 1 ELSE 0)

\* variant: all three conditions are required
SepsisRuleAllThree(a) == Qsofa(a) >= 3

\* if qsofa >= 2
SepsisRule(a) == Qsofa(a) >= 2

\* meds = [m["name"].lower() for m in medications of the patient]
MedNames(meds, p) == {Lower(meds[i].name) : i \in {j \in 1..Len(meds) : meds[j].patient = p}}

BetaBlockerRule(a, meds, p) ==
    "bisoprolol" \in MedNames(meds, p) /\ Truthy(a.systolic_bp) /\ a.systolic_bp < 95

\* the list `alerts` the function builds, in the order of its appends
MatchedAlerts(a, meds, p) ==
       (IF FeverRule(a) THEN <<FEVER>> ELSE <<>>)
    \o (IF HypoxiaRule(a) THEN <<HYPOXIA>> ELSE <<>>)
    \o (IF HypotensionRule(a) THEN <<HYPOTENSION>> ELSE <<>>)
    \o (IF TachycardiaRule(a) THEN <<TACHYCARDIA>> ELSE <<>>)
    \o (IF SepsisRule(a) THEN <<SEPSIS>> ELSE <<>>)
    \o (IF BetaBlockerRule(a, meds, p) THEN <<BETABLOCKER>> ELSE <<>>)

AlertRow(p, m, t) ==
    [patient |-> p, alert |-> m.alert, severity |-> m.severity, created_at |-> NowIso(t)]

\* variant: the patient's old alerts are kept
SaveAlertsKeepingOld(al, p, matched, t) ==
    al \o [i \in 1..Len(matched) |-> AlertRow(p, matched[i], t)]

\* variant: the alerts of all patients are deleted
SaveAlertsClearingAll(al, p, matched, t) ==
    [i \in 1..Len(matched) |-> AlertRow(p, matched[i], t)]

\* DELETE FROM ai_alerts WHERE patient_id = ?, then one INSERT per match
SaveAlerts(al, p, matched, t) ==
    NotOfPatient(al, p) \o [i \in 1..Len(matched) |-> AlertRow(p, matched[i], t)]

\* generate_ai_alerts(conn, patient_id): the table ai_alerts it leaves, from
\* the tables it reads, at time t
generate_ai_alerts(al, as, meds, p, t) ==
    LET a == LatestAssessment(as, p) IN
    IF a = <<>> THEN al
    ELSE SaveAlerts(al, p, MatchedAlerts(a[1], meds, p), t)

----------------------------------------------------------------------------
(* PriorityEngine: generate_priorities_and_tasks, problem part *)

HYPOXIE == "Hypoxie-Risiko / O2-Überwachung"
ATEMNOT == "Atemnot / eingeschränkter Gasaustausch"
HYPOTONIE == "Hypotonie - Kreislauf instabil"
TACHYKARDIE == "Tachykardie / Kreislaufbelastung"
VERWIRRTHEIT == "Akute Verwirrtheit / Delirrisiko"
INFEKTION == "Infektionsrisiko"
STURZ == "Sturz- und Dekubitusrisiko"
SCHMERZEN == "Schmerzen"
STARKE_SCHMERZEN == "Starke Schmerzen"
FALLBACK == "Allgemeines Monitoring / Stabilisierung"

PRIORITY_WEIGHTS ==
    ( HYPOXIE :> 1 @@ ATEMNOT :> 1 @@ HYPOTONIE :> 2 @@ TACHYKARDIE :> 2
   @@ VERWIRRTHEIT :> 3 @@ INFEKTION :> 4 @@ STURZ :> 4 @@ SCHMERZEN :> 5
   @@ FALLBACK :> 99 )

\* PRIORITY_WEIGHTS.get(p, 50)
Weight(p) == IF p \in DOMAIN PRIORITY_WEIGHTS THEN PRIORITY_WEIGHTS[p] ELSE 50

SPOKEN_PRIORITY_KEYWORDS ==
    ( "gestürzt" :> STURZ @@ "gefallen" :> STURZ @@ "fast gefallen" :> STURZ
   @@ "unsicher" :> STURZ @@ "dekubitus" :> STURZ
   @@ "atemnot" :> ATEMNOT @@ "kurzatmig" :> ATEMNOT
   @@ "schmerz" :> STARKE_SCHMERZEN @@ "schmerzen" :> STARKE_SCHMERZEN
   @@ "verwirrt" :> VERWIRRTHEIT @@ "delir" :> VERWIRRTHEIT )

\* extract_problems_from_nurse_notes: the problems of the keywords found in
\* the most recent note, as the set that list(set(found_problems)) lists
extract_problems_from_nurse_notes(notes, p) ==
    LET row == LatestRow(OfPatient(notes, p)) IN
    IF row = <<>> \/ row[1].note = "" THEN {}
    ELSE LET note_text == Lower(row[1].note) IN
         { SPOKEN_PRIORITY_KEYWORDS[k] :
             k \in {kw \in DOMAIN SPOKEN_PRIORITY_KEYWORDS : Contains(note_text, kw)} }

\* the lists list(set(...)) can return: any order of the set's elements
ListsOfSet(S) == {q \in [1..Cardinality(S) -> S] : Range(q) = S}

\* stable sort of rows by priority_rank (ORDER BY priority_rank)
InsertByRank(sorted, r) ==
    LET k == Cardinality({i \in 1..Len(sorted) : sorted[i].priority_rank <= r.priority_rank})
    IN SubSeq(sorted, 1, k) \o <<r>> \o SubSeq(sorted, k + 1, Len(sorted))

RECURSIVE SortByRank(_)
SortByRank(rows) ==
    IF rows = <<>> THEN <<>>
    ELSE InsertByRank(SortByRank(SubSeq(rows, 1, Len(rows) - 1)), rows[Len(rows)])

\* SELECT problem FROM patient_priorities WHERE patient_id = ? ORDER BY priority_rank
ExistingProblems(pr, p) ==
    LET rows == SortByRank(OfPatient(pr, p)) IN [i \in 1..Len(rows) |-> rows[i].problem]

\* for x in xs: if x not in problems: problems.append(x)
RECURSIVE AppendNew(_, _)
AppendNew(problems, xs) ==
    IF xs = <<>> THEN problems
    ELSE AppendNew(IF xs[1] \in Range(problems) THEN problems ELSE Append(problems, xs[1]),
                   Tail(xs))

\* variant: a temperature of 38.5 counts
VitalsProblemsFeverFrom385(a) ==
       (IF a.pain # NULL /\ a.pain >= 7 THEN <<SCHMERZEN>> ELSE <<>>)
    \o (IF a.mobility # NULL /\ a.mobility <= 3 THEN <<STURZ>> ELSE <<>>)
    \o (IF a.confusion # NULL /\ a.confusion >= 6 THEN <<VERWIRRTHEIT>> ELSE <<>>)
    \o (IF a.oxygen_sat # NULL /\ a.oxygen_sat < 92 THEN <<HYPOXIE>> ELSE <<>>)
    \o (IF a.heart_rate # NULL /\ a.heart_rate > 110 THEN <<TACHYKARDIE>> ELSE <<>>)
    \o (IF a.systolic_bp # NULL /\ a.systolic_bp < 90 THEN <<HYPOTONIE>> ELSE <<>>)
    \o (IF a.temperature # NULL /\ a.temperature >= 385 THEN <<INFEKTION>> ELSE <<>>)
    \o (IF a.respiration_rate # NULL /\ a.respiration_rate > 20 THEN <<ATEMNOT>> ELSE <<>>)

\* the problems the thresholds on the latest assessment yield, in the order
\* of the code's tests
VitalsProblems(a) ==
       (IF a.pain # NULL /\ a.pain >= 7 THEN <<SCHMERZEN>> ELSE <<>>)
    \o (IF a.mobility # NULL /\ a.mobility <= 3 THEN <<STURZ>> ELSE <<>>)
    \o (IF a.confusion # NULL /\ a.confusion >= 6 THEN <<VERWIRRTHEIT>> ELSE <<>>)
    \o (IF a.oxygen_sat # NULL /\ a.oxygen_sat < 92 THEN <<HYPOXIE>> ELSE <<>>)
    \o (IF a.heart_rate # NULL /\ a.heart_rate > 110 THEN <<TACHYKARDIE>> ELSE <<>>)
    \o (IF a.systolic_bp # NULL /\ a.systolic_bp < 90 THEN <<HYPOTONIE>> ELSE <<>>)
    \o (IF a.temperature # NULL /\ a.temperature > 385 THEN <<INFEKTION>> ELSE <<>>)
    \o (IF a.respiration_rate # NULL /\ a.respiration_rate > 20 THEN <<ATEMNOT>> ELSE <<>>)

\* variant: no fallback
WithoutFallback(problems) == problems

\* if not problems: problems.append(fallback)
WithFallback(problems) == IF problems = <<>> THEN <<FALLBACK>> ELSE problems

\* variant: the note's problems are left out
CollectProblemsWithoutNotes(pr, as, notes, p, spoken) ==
    LET existing == ExistingProblems(pr, p)
        a == LatestAssessment(as, p)
        withVitals == IF a = <<>> THEN existing
                      ELSE AppendNew(existing, VitalsProblems(a[1]))
    IN WithFallback(withVitals)

\* the list `problems` before the ranking: persisted problems, then the
\* note's (in the order spoken), then the latest assessment's, then the fallback
CollectProblems(pr, as, notes, p, spoken) ==
    LET existing == ExistingProblems(pr, p)
        withSpoken == AppendNew(existing, spoken)
        a == LatestAssessment(as, p)
        withVitals == IF a = <<>> THEN withSpoken
                      ELSE AppendNew(withSpoken, VitalsProblems(a[1]))
    IN WithFallback(withVitals)

\* list(dict.fromkeys(problems))
Dedup(problems) == AppendNew(<<>>, problems)

\* variant: no sorting
InsertAtEnd(sorted, x) == Append(sorted, x)

\* problems.sort(key=weight): Python's sort is stable
InsertByWeight(sorted, x) ==
    LET k == Cardinality({i \in 1..Len(sorted) : Weight(sorted[i]) <= Weight(x)})
    IN SubSeq(sorted, 1, k) \o <<x>> \o SubSeq(sorted, k + 1, Len(sorted))

RECURSIVE SortByWeight(_)
SortByWeight(problems) ==
    IF problems = <<>> THEN <<>>
    ELSE InsertByWeight(SortByWeight(SubSeq(problems, 1, Len(problems) - 1)),
                        problems[Len(problems)])

\* variants: another cut
TopFour(problems) == SubSeq(problems, 1, Min(4, Len(problems)))
TopTwo(problems) == SubSeq(problems, 1, Min(2, Len(problems)))

\* problems[:3]
TopThree(problems) == SubSeq(problems, 1, Min(3, Len(problems)))

RankProblems(problems) == TopThree(SortByWeight(Dedup(problems)))

\* variant: the INSERTs without the DELETE before them
PersistPrioritiesKeepingOld(pr, p, problems) ==
    pr \o [i \in 1..Len(problems) |-> [patient |-> p, priority_rank |-> i, problem |-> problems[i]]]

\* DELETE FROM patient_priorities WHERE patient_id = ?, then one INSERT per
\* problem with rank 1, 2, ...
PersistPriorities(pr, p, problems) ==
    NotOfPatient(pr, p)
    \o [i \in 1..Len(problems) |-> [patient |-> p, priority_rank |-> i, problem |-> problems[i]]]

----------------------------------------------------------------------------
(* TaskScheduler *)

T_SPO2 == "SpO2 & AF alle 2h dokumentieren"
T_OBERKOERPER == "Oberkörperhochlagerung"
T_RR == "RR & Puls alle 2h kontrollieren"
T_LAGERUNG == "Lagerung alle 2h dokumentieren"
T_STURZ == "Sturzrisiko einschätzen"
T_ORIENTIERUNG == "Orientierungshilfen bereitstellen"
T_SCHMERZSKALA == "Schmerzskala alle 4h erheben"
T_VITAL == "Vitalzeichen nach Standard"
T_SCHMERZ_TGL == "Schmerzen täglich nachfragen"
T_GEWICHT_TGL == "Gewicht täglich messen"

\* the if/elif chain that maps a problem to its task descriptions
TaskDescriptions(prob) ==
    IF Contains(prob, "Hypoxie") \/ Contains(prob, "Atemnot") THEN <<T_SPO2, T_OBERKOERPER>>
    ELSE IF Contains(prob, "Hypotonie") \/ Contains(prob, "Tachykardie") THEN <<T_RR>>
    ELSE IF Contains(prob, "Sturz") THEN <<T_LAGERUNG, T_STURZ>>
    ELSE IF Contains(prob, "Verwirrtheit") THEN <<T_ORIENTIERUNG>>
    ELSE IF Contains(prob, "Schmerzen") THEN <<T_SCHMERZSKALA>>
    ELSE <<T_VITAL>>

\* the descriptions the two nested loops visit, in order
RECURSIVE CatalogOf(_)
CatalogOf(problems) ==
    IF problems = <<>> THEN <<>>
    ELSE TaskDescriptions(problems[1]) \o CatalogOf(Tail(problems))

IsOpen(r) == r.completed = 0

TaskRow(id, p, desc, due, completed) ==
    [id |-> id, patient |-> p, description |-> desc, due_time |-> due, completed |-> completed]

\* variant: the DELETE without the filter on description
DeleteOpenOfPatient(tk, p, desc) ==
    SelectSeq(tk, LAMBDA r : ~(r.patient = p /\ IsOpen(r)))

\* variant: the DELETE without the filter on patient_id
DeleteOpenOfAnyPatient(tk, p, desc) ==
    SelectSeq(tk, LAMBDA r : ~(IsOpen(r) /\ r.description = desc))

\* DELETE FROM ai_tasks WHERE patient_id = ? AND completed = 0 AND description = ?
DeleteOpen(tk, p, desc) ==
    SelectSeq(tk, LAMBDA r : ~(r.patient = p /\ IsOpen(r) /\ r.description = desc))

\* due time of a generated task: now_local() + interval, isoformat
GeneratedDue(desc, t) == PlusHours(NowIso(t), get_default_interval_hours(desc))

\* variant: the open task of (p, desc) is kept beside the new one
ReplaceTaskKeepingOld(st, p, desc, t) ==
    [tasks |-> Append(st.tasks, TaskRow(st.next, p, desc, GeneratedDue(desc, t), 0)),
     next |-> st.next + 1]

\* one pass of the inner loop: delete the open task of (p, desc), insert a new one
ReplaceTask(st, p, desc, t) ==
    [tasks |-> Append(DeleteOpen(st.tasks, p, desc),
                      TaskRow(st.next, p, desc, GeneratedDue(desc, t), 0)),
     next |-> st.next + 1]

\* the task loops of generate_priorities_and_tasks over the descriptions
\* descs; st = [tasks, next] is the table and its next id
RECURSIVE GenerateTasks(_, _, _, _)
GenerateTasks(st, p, descs, t) ==
    IF descs = <<>> THEN st
    ELSE GenerateTasks(ReplaceTask(st, p, descs[1], t), p, Tail(descs), t)

\* generate_priorities_and_tasks(conn, patient_id): the tables it leaves,
\* given the order `spoken` of the note's problems
generate_priorities_and_tasks(pr, tk, nid, al, as, notes, meds, p, spoken, t) ==
    LET problems == RankProblems(CollectProblems(pr, as, notes, p, spoken))
        st == GenerateTasks([tasks |-> tk, next |-> nid], p, CatalogOf(problems), t)
    IN [priorities |-> PersistPriorities(pr, p, problems),
        tasks |-> st.tasks,
        next |-> st.next,
        alerts |-> generate_ai_alerts(al, as, meds, p, t)]

\* complete_and_schedule_next(conn, patient_id, desc_exact, interval_hours)
complete_and_schedule_next(st, p, desc_exact, interval_hours, t) ==
    IF \A i \in 1..Len(st.tasks) :
          ~(st.tasks[i].patient = p /\ st.tasks[i].description = desc_exact /\ IsOpen(st.tasks[i]))
    THEN st
    ELSE [tasks |-> Append([i \in 1..Len(st.tasks) |->
                               IF st.tasks[i].patient = p /\ st.tasks[i].description = desc_exact
                                  /\ IsOpen(st.tasks[i])
                               THEN [st.tasks[i] EXCEPT !.completed = 1]
                               ELSE st.tasks[i]],
                           TaskRow(st.next, p, desc_exact, PlusHours(NowIso(t), interval_hours), 0)),
          next |-> st.next + 1]

STANDARD_TASKS == <<T_VITAL, T_SCHMERZ_TGL, T_GEWICHT_TGL>>

\* variant: the task is inserted whether or not an open one exists
EnsureOneAlways(st, p, desc, t) ==
    [tasks |-> Append(st.tasks, TaskRow(st.next, p, desc, NowIso(t), 0)),
     next |-> st.next + 1]

\* one pass of the inner loop of ensure_standard_vitals_tasks
EnsureOne(st, p, desc, t) ==
    IF \E i \in 1..Len(st.tasks) :
          st.tasks[i].patient = p /\ st.tasks[i].description = desc /\ IsOpen(st.tasks[i])
    THEN st
    ELSE [tasks |-> Append(st.tasks, TaskRow(st.next, p, desc, NowIso(t), 0)),
          next |-> st.next + 1]

\* the loops of ensure_standard_vitals_tasks over the <<patient, description>>
\* pairs `todo`
RECURSIVE EnsureAll(_, _, _)
EnsureAll(st, todo, t) ==
    IF todo = <<>> THEN st
    ELSE EnsureAll(EnsureOne(st, todo[1][1], todo[1][2], t), Tail(todo), t)

\* the patients in id order (SELECT id FROM patients)
RECURSIVE SetToSeq(_)
SetToSeq(S) ==
    IF S = {} THEN <<>>
    ELSE LET m == CHOOSE x \in S : \A y \in S : x <= y IN <<m>> \o SetToSeq(S \ {m})

RECURSIVE StandardTodo(_)
StandardTodo(pids) ==
    IF pids = <<>> THEN <<>>
    ELSE [i \in 1..Len(STANDARD_TASKS) |-> <<pids[1], STANDARD_TASKS[i]>>]
         \o StandardTodo(Tail(pids))

\* ensure_standard_vitals_tasks(conn)
ensure_standard_vitals_tasks(st, pats, t) == EnsureAll(st, StandardTodo(SetToSeq(pats)), t)

\* toggle_task, task_type "ai", on the row at index i of the table

\* variant: the next occurrence is counted from the current time
BaseDueNow(due, t) == NowIso(t)

\* variant: the stored text is taken as it is
BaseDueAsStored(due, t) == due

\* base_due: the parsed due time, now_local() when it is missing or unparsable
BaseDue(due, t) == IF Parses(due) THEN due ELSE NowIso(t)

ToggleComplete(st, i, t) ==
    LET task == st.tasks[i]
        next_due == PlusHours(BaseDue(task.due_time, t),
                              get_default_interval_hours(task.description))
    IN [tasks |-> Append([st.tasks EXCEPT ![i].completed = 1],
                         TaskRow(st.next, task.patient, task.description, next_due, 0)),
        next |-> st.next + 1]

\* variant: >= in place of >
SqlNotBefore(d, ref) == SqlValid(d) /\ SqlValid(ref) /\ SqlDatetime(d) >= SqlDatetime(ref)

\* datetime(due_time) > datetime(?): never true when either side is no timestamp
SqlAfter(d, ref) == SqlValid(d) /\ SqlValid(ref) /\ SqlDatetime(d) > SqlDatetime(ref)

\* due_time_str or now_local().isoformat(timespec="minutes")
UndoReference(due, t) == IF due.kind = "none" THEN NowIso(t) ELSE due

\* variant: the DELETE without the UPDATE that reopens the task
ToggleUndoWithoutReopen(st, i, t) ==
    LET task == st.tasks[i]
        ref == UndoReference(task.due_time, t)
    IN [tasks |-> SelectSeq(st.tasks, LAMBDA r :
                      ~( r.patient = task.patient /\ r.description = task.description
                         /\ IsOpen(r) /\ SqlAfter(r.due_time, ref) )),
        next |-> st.next]

\* the branch of a completed task: reopen it, then DELETE the open tasks of
\* its patient and description with datetime(due_time) > datetime(?)
ToggleUndo(st, i, t) ==
    LET task == st.tasks[i]
        reopened == [st.tasks EXCEPT ![i].completed = 0]
        ref == UndoReference(task.due_time, t)
    IN [tasks |-> SelectSeq(reopened, LAMBDA r :
                      ~( r.patient = task.patient /\ r.description = task.description
                         /\ IsOpen(r) /\ SqlAfter(r.due_time, ref) )),
        next |-> st.next]

toggle_task_ai(st, i, t) ==
    IF IsOpen(st.tasks[i]) THEN ToggleComplete(st, i, t) ELSE ToggleUndo(st, i, t)

----------------------------------------------------------------------------
(* AssignmentScorer: update_bezugspflege_by_interactions *)

\* table nurses, as seeded
NURSES == (1 :> "Mia Gross" @@ 2 :> "Karl Loch" @@ 3 :> "Lisa Hans")

\* the nurse ids in the order of their names (GROUP BY author lists the
\* authors in ascending order)
NurseIdsByName == <<2, 3, 1>>

\* COUNT(*) of the patient's rows of a table authored by the nurse's name
AuthoredBy(rows, p, n) ==
    Cardinality({i \in 1..Len(rows) : rows[i].patient = p /\ rows[i].author = NURSES[n]})

\* table med_administrations (patient, nurse_id): created empty, and no
\* statement of the program inserts into it
med_administrations == <<>>

\* COUNT(*) of the patient's rows of med_administrations with the nurse's id
AdministeredBy(rows, p, n) ==
    Cardinality({i \in 1..Len(rows) : rows[i].patient = p /\ rows[i].nurse_id = n})

\* scores[nurse_id]: 2 per note, 1 per assessment, 1 per row of med_administrations
Score(notes, as, p, n) ==
    2 * AuthoredBy(notes, p, n) + 1 * AuthoredBy(as, p, n)
        + 1 * AdministeredBy(med_administrations, p, n)

\* the keys of dict `scores` in insertion order: note authors, then
\* assessment authors
ScoreKeys(notes, as, p) ==
    AppendNew(SelectSeq(NurseIdsByName, LAMBDA n : AuthoredBy(notes, p, n) > 0),
              SelectSeq(NurseIdsByName, LAMBDA n : AuthoredBy(as, p, n) > 0))

\* variant: the first of the top-scoring nurses is chosen, whoever is assigned
UpdateIgnoringCurrent(bz, notes, as, p) ==
    LET keys == ScoreKeys(notes, as, p) IN
    IF keys = <<>> THEN bz
    ELSE LET best == CHOOSE b \in {Score(notes, as, p, keys[i]) : i \in 1..Len(keys)} :
                        \A i \in 1..Len(keys) : Score(notes, as, p, keys[i]) <= b
             winners == SelectSeq(keys, LAMBDA n : Score(notes, as, p, n) = best)
         IN [bz EXCEPT ![p] = winners[1]]

\* update_bezugspflege_by_interactions(conn, patient_id): the new
\* patients.bezugspflege_id column
update_bezugspflege_by_interactions(bz, notes, as, p) ==
    LET keys == ScoreKeys(notes, as, p) IN
    IF keys = <<>> THEN bz
    ELSE LET best == CHOOSE b \in {Score(notes, as, p, keys[i]) : i \in 1..Len(keys)} :
                        \A i \in 1..Len(keys) : Score(notes, as, p, keys[i]) <= b
             winners == SelectSeq(keys, LAMBDA n : Score(notes, as, p, n) = best)
             chosen == IF bz[p] \in Range(winners) THEN bz[p] ELSE winners[1]
         IN [bz EXCEPT ![p] = chosen]

----------------------------------------------------------------------------
(* Documentation events: flowsheet and voice_doc *)

\* variant: the value is stored as entered
SafeRangeAsEntered(value, min_v, max_v) == value

\* safe_range(value, min_v, max_v)
safe_range(value, min_v, max_v) ==
    IF value = NULL THEN NULL ELSE Max(min_v, Min(max_v, value))

\* get_current_nurse(conn)["name"] if a nurse is selected, else the default
AuthorName(sess, default) == IF sess \in DOMAIN NURSES THEN NURSES[sess] ELSE default

\* the assessment row a flowsheet form stores (columns the engine never
\* reads are left out)
FlowsheetRow(p, f, sess, t) ==
    [patient |-> p, created_at |-> NowIso(t), author |-> AuthorName(sess, "unbekannt"),
     temperature |-> safe_range(f.temperature, 250, 450),
     heart_rate |-> safe_range(f.heart_rate, 0, 250),
     respiration_rate |-> safe_range(f.respiration_rate, 0, 80),
     systolic_bp |-> safe_range(f.systolic_bp, 40, 250),
     diastolic_bp |-> safe_range(f.diastolic_bp, 20, 150),
     oxygen_sat |-> safe_range(f.oxygen_sat, 50, 100),
     weight |-> safe_range(f.weight, 50, 100),
     pain |-> f.pain, mobility |-> f.mobility, confusion |-> f.confusion]

\* the row voice_doc stores: INSERT INTO assessments (patient_id, created_at, other_notes)
EmptyRow(p, t) ==
    [patient |-> p, created_at |-> NowIso(t), author |-> "",
     temperature |-> NULL, heart_rate |-> NULL, respiration_rate |-> NULL,
     systolic_bp |-> NULL, diastolic_bp |-> NULL, oxygen_sat |-> NULL,
     weight |-> NULL, pain |-> NULL, mobility |-> NULL, confusion |-> NULL]

charted_any_vitals(a) ==
    \E v \in {a.temperature, a.heart_rate, a.respiration_rate,
              a.systolic_bp, a.diastolic_bp, a.oxygen_sat} : v # NULL

\* description LIKE '%Vitalzeichen%' OR '%RR%' OR '%SpO2%' OR '%Puls%' OR
\* '%AF%' (LIKE ignores case), over the descriptions of the model
VitalsLike(desc) == desc \in {T_VITAL, T_RR, T_SPO2}

\* UPDATE ai_tasks SET completed = 1 WHERE patient_id = ? AND completed = 0 AND (LIKE ...)
CompleteVitalsTasks(tk, p) ==
    [i \in 1..Len(tk) |->
        IF tk[i].patient = p /\ IsOpen(tk[i]) /\ VitalsLike(tk[i].description)
        THEN [tk[i] EXCEPT !.completed = 1] ELSE tk[i]]

\* the task part of the flowsheet POST
FlowsheetTasks(st, p, a, t) ==
    LET s1 == IF charted_any_vitals(a)
              THEN [tasks |-> CompleteVitalsTasks(st.tasks, p), next |-> st.next] ELSE st
        s2 == IF a.pain # NULL THEN complete_and_schedule_next(s1, p, T_SCHMERZ_TGL, 24, t) ELSE s1
        s3 == IF a.weight # NULL THEN complete_and_schedule_next(s2, p, T_GEWICHT_TGL, 24, t) ELSE s2
    IN s3

NoteRow(p, text, created, author) ==
    [patient |-> p, note |-> text, created_at |-> created, author |-> author]

\* the nurse note the flowsheet writes when other_notes is not blank
FlowsheetNotes(notes, p, text, sess, t) ==
    IF text = "" THEN notes
    ELSE Append(notes, NoteRow(p, text, NowIso(t), AuthorName(sess, "Flowsheet-Dokumentation")))

\* map_selected_phrase_to_task(text): the task of the first key of
\* `mappings` found in the line, <<>> when none is
PhraseMappings ==
    << <<"inhaliert", "Inhalation durchgeführt">>,
       <<"gelagert", T_LAGERUNG>> >>

map_selected_phrase_to_task(text) ==
    LET hits == SelectSeq(PhraseMappings, LAMBDA m : Contains(Lower(text), m[1]))
    IN IF hits = <<>> THEN <<>> ELSE <<hits[1][2]>>

\* the loop over the selected lines: one completed task per mapped line
RECURSIVE InsertSelected(_, _, _, _)
InsertSelected(st, p, lines, t) ==
    IF lines = <<>> THEN st
    ELSE LET m == map_selected_phrase_to_task(lines[1])
             s1 == IF m = <<>> THEN st
                   ELSE [tasks |-> Append(st.tasks, TaskRow(st.next, p, m[1], NowIso(t), 1)),
                         next |-> st.next + 1]
         IN InsertSelected(s1, p, Tail(lines), t)

----------------------------------------------------------------------------
(* The seeded database (src/ehr_bezugspflege_sqlite.py), restricted to the *)
(* patients P; the seed script runs at clock value 0                       *)

MedRow(id, p, name, dose, route, schedule, due) ==
    [id |-> id, patient |-> p, name |-> name, dose |-> dose, route |-> route,
     schedule |-> schedule, next_due |-> due, given |-> 0, not_given |-> 0,
     last_given_by |-> <<>>, last_given_at |-> NoTime]

SeedMedications ==
    << MedRow(1, 1, "Bisoprolol", "2.5 mg", "p.o.", "1x morgens", Naive(8)),
       MedRow(2, 1, "Furosemid", "20 mg", "i.v.", "2x täglich", Naive(8)),
       MedRow(3, 1, "Pantoprazol", "40 mg", "p.o.", "1x morgens", Naive(8)),
       MedRow(4, 2, "ASS", "100 mg", "p.o.", "1x morgens", Naive(8)),
       MedRow(5, 2, "Heparin", "5000 IE", "s.c.", "alle 8h", Naive(2)) >>

SeedNotes ==
    << NoteRow(1, "Patient kurzatmig bei Belastung, O2 2l.", Naive(0 - 5), "Anna Müller"),
       NoteRow(1, "Bilanz begonnen, Angehörige aufgeklärt.", Naive(0 - 2), "Anna Müller"),
       NoteRow(2, "Kurzatmigkeit bei Bewegung.", Naive(0 - 4), "Jonas Weber") >>

\* the three standard tasks of every patient, due at the time of seeding
SeedTasks(P) ==
    LET todo == StandardTodo(SetToSeq(P))
    IN [i \in 1..Len(todo) |-> TaskRow(i, todo[i][1], todo[i][2], Naive(0), 0)]

NoOp == [op |-> "init", arg |-> 0]

\* the callers of the overlapping recomputes, and a caller with no call under way
Callers == {1, 2}
IdleCall == [pc |-> "idle", patient |-> 0, as |-> <<>>, pr |-> <<>>, spoken |-> <<>>]
NoCalls == [c \in Callers |-> IdleCall]

InitSeed(P) ==
    /\ now = 0
    /\ session = 0
    /\ patients = P
    /\ bezugspflege = [p \in P |-> 3]
    /\ medications = SelectSeq(SeedMedications, LAMBDA r : r.patient \in P)
    /\ assessments = <<>>
    /\ nurse_notes = SelectSeq(SeedNotes, LAMBDA r : r.patient \in P)
    /\ patient_priorities = <<>>
    /\ ai_tasks = SeedTasks(P)
    /\ ai_alerts = <<>>
    /\ nextTaskId = Len(SeedTasks(P)) + 1
    /\ nextMedId = Len(SeedMedications) + 1
    /\ lastOp = NoOp
    /\ prevTasks = <<>>
    /\ prevPriorities = <<>>
    /\ prevMeds = <<>>
    /\ calls = NoCalls

----------------------------------------------------------------------------
(* DoseCycle: get_med_interval_hours and toggle_task, task_type "med" *)

\* get_med_interval_hours(schedule)
get_med_interval_hours(schedule) ==
    IF schedule = "" THEN 8
    ELSE LET s == Lower(schedule) IN
         IF Contains(s, "alle 1h") \/ Contains(s, "alle 1 h") THEN 1
         ELSE IF Contains(s, "alle 2h") \/ Contains(s, "alle 2 h") THEN 2
         ELSE IF Contains(s, "alle 4h") \/ Contains(s, "alle 4 h") THEN 4
         ELSE IF Contains(s, "1x täglich") \/ Contains(s, "1 x täglich") THEN 24
         ELSE IF Contains(s, "2x täglich") \/ Contains(s, "2 x täglich") THEN 6
         ELSE IF Contains(s, "3x täglich") \/ Contains(s, "3 x täglich") THEN 8
         ELSE IF Contains(s, "morgens") \/ Contains(s, "abends") \/ Contains(s, "nachts") THEN 24
         ELSE 8

\* current_nurse["name"] if current_nurse else None
ActorOf(sess) == IF sess \in DOMAIN NURSES THEN <<NURSES[sess]>> ELSE <<>>

\* given = 0 and not_given = 0
IsOpenDose(r) == r.given = 0 /\ r.not_given = 0

\* variant: the next dose is counted from the current time
MedBaseDueNow(due, t) == NowIso(t)

\* base_due: now_local() without next_due, the parsed next_due, and
\* datetime.now() when next_due does not parse
MedBaseDue(due, t) ==
    IF due.kind = "none" THEN NowIso(t)
    ELSE IF Parses(due) THEN due
    ELSE Naive(t)

\* variant: the other flag is left as it is
MarkDoseKeepingFlags(med, action, sess, t) ==
    [med EXCEPT !.given = IF action = "given" THEN 1 ELSE med.given,
                !.not_given = IF action = "given" THEN med.not_given ELSE 1,
                !.last_given_by = ActorOf(sess),
                !.last_given_at = NowStrftime(t)]

\* UPDATE medications SET given, not_given, last_given_by, last_given_at
MarkDose(med, action, sess, t) ==
    [med EXCEPT !.given = IF action = "given" THEN 1 ELSE 0,
                !.not_given = IF action = "given" THEN 0 ELSE 1,
                !.last_given_by = ActorOf(sess),
                !.last_given_at = NowStrftime(t)]

\* the branches `if not given` and `if not not_given`: mark this dose and
\* insert the next dose as a new open row; st = [meds, next]
ResolveDose(st, i, action, sess, t) ==
    LET med == st.meds[i]
        new_next_due == PlusHours(MedBaseDue(med.next_due, t),
                                  get_med_interval_hours(med.schedule))
    IN [meds |-> Append([st.meds EXCEPT ![i] = MarkDose(med, action, sess, t)],
                        MedRow(st.next, med.patient, med.name, med.dose, med.route,
                               med.schedule, new_next_due)),
        next |-> st.next + 1]

\* the DELETE of the undo branches: open rows of the same patient, name and
\* schedule with datetime(next_due) > datetime(ref)
IsLaterOpenDose(r, med, ref) ==
    /\ r.patient = med.patient
    /\ r.name = med.name
    /\ r.schedule = med.schedule
    /\ IsOpenDose(r)
    /\ SqlAfter(r.next_due, ref)

\* the undo branches: clear the flags and the actor fields of this dose and
\* delete the later open doses
UndoDose(st, i, t) ==
    LET med == st.meds[i]
        cleared == [med EXCEPT !.given = 0, !.not_given = 0,
                               !.last_given_by = <<>>, !.last_given_at = NoTime]
        ref == UndoReference(med.next_due, t)
    IN [meds |-> SelectSeq([st.meds EXCEPT ![i] = cleared],
                           LAMBDA r : ~IsLaterOpenDose(r, med, ref)),
        next |-> st.next]

\* toggle_task, task_type "med", on the row at index i with form field action
toggle_task_med(st, i, action, sess, t) ==
    IF action = "given"
    THEN IF st.meds[i].given = 0 THEN ResolveDose(st, i, action, sess, t)
         ELSE UndoDose(st, i, t)
    ELSE IF action = "not_given"
    THEN IF st.meds[i].not_given = 0 THEN ResolveDose(st, i, action, sess, t)
         ELSE UndoDose(st, i, t)
    ELSE st

\* the name the history gives to a dose action on row r
DoseOp(r, action) ==
    IF action = "given" THEN (IF r.given = 0 THEN "given" ELSE "undo_given")
    ELSE IF r.not_given = 0 THEN "not_given" ELSE "undo_not_given"

----------------------------------------------------------------------------
(* Operations *)

\* the history an operation leaves; `recomputes` says whether it ran
\* generate_priorities_and_tasks
History(op, arg, recomputes) ==
    /\ lastOp' = [op |-> op, arg |-> arg]
    /\ prevTasks' = IF op = "complete" THEN ai_tasks
                    ELSE IF op = "undo" /\ lastOp = [op |-> "complete", arg |-> arg]
                         THEN prevTasks
                         ELSE <<>>
    /\ prevPriorities' = IF recomputes THEN patient_priorities ELSE prevPriorities
    /\ prevMeds' = IF op \in {"given", "not_given"} THEN medications ELSE <<>>

\* an operation that runs from start to commit while no call under way
\* moves on
Did(op, arg, recomputes) == History(op, arg, recomputes) /\ UNCHANGED calls

\* time passes; no operation runs
Tick ==
    /\ now' = now + 1
    /\ UNCHANGED <<lastOp, prevTasks, prevPriorities, prevMeds, calls>>
    /\ UNCHANGED <<session, patients, bezugspflege, medications, assessments, nurse_notes,
                   patient_priorities, ai_tasks, ai_alerts, nextTaskId, nextMedId>>

\* POST /select_nurse
SelectNurse(n) ==
    /\ session # n
    /\ session' = n
    /\ Did("select_nurse", n, FALSE)
    /\ UNCHANGED <<now, patients, bezugspflege, medications, assessments, nurse_notes,
                   patient_priorities, ai_tasks, ai_alerts, nextTaskId, nextMedId>>

\* GET /logout
Logout ==
    /\ session # 0
    /\ session' = 0
    /\ Did("logout", 0, FALSE)
    /\ UNCHANGED <<now, patients, bezugspflege, medications, assessments, nurse_notes,
                   patient_priorities, ai_tasks, ai_alerts, nextTaskId, nextMedId>>

\* AlertEngine entry point: generate_ai_alerts(conn, p)
GenerateAlerts(p) ==
    /\ ai_alerts' = generate_ai_alerts(ai_alerts, assessments, medications, p, now)
    /\ Did("alerts", p, FALSE)
    /\ UNCHANGED <<now, session, patients, bezugspflege, medications, assessments, nurse_notes,
                   patient_priorities, ai_tasks, nextTaskId, nextMedId>>

\* AssignmentScorer entry point: update_bezugspflege_by_interactions(conn, p)
Rescore(p) ==
    /\ bezugspflege' = update_bezugspflege_by_interactions(bezugspflege, nurse_notes, assessments, p)
    /\ Did("score", p, FALSE)
    /\ UNCHANGED <<now, session, patients, medications, assessments, nurse_notes,
                   patient_priorities, ai_tasks, ai_alerts, nextTaskId, nextMedId>>

\* recompute entry point: generate_priorities_and_tasks(conn, p)
Recompute(p) ==
    /\ \E spoken \in ListsOfSet(extract_problems_from_nurse_notes(nurse_notes, p)) :
       \E r \in {generate_priorities_and_tasks(patient_priorities, ai_tasks, nextTaskId,
                    ai_alerts, assessments, nurse_notes, medications, p, spoken, now)} :
          /\ patient_priorities' = r.priorities
          /\ ai_tasks' = r.tasks
          /\ nextTaskId' = r.next
          /\ ai_alerts' = r.alerts
    /\ Did("recompute", p, TRUE)
    /\ UNCHANGED <<now, session, patients, bezugspflege, medications, assessments,
                   nurse_notes, nextMedId>>

\* A call of generate_priorities_and_tasks(conn, p) on a connection of its
\* own, statement by statement.  The three SELECTs run before the
\* connection has a transaction open and each sees the rows committed at
\* its moment.  The first DELETE opens the transaction (sqlite3.connect with
\* the default isolation level) and takes SQLite's write lock, which the
\* connection holds until the commit, so that the writes of one call,
\* those of generate_ai_alerts included, are one step that no write of
\* another connection comes between.

\* SELECT * FROM assessments ... ORDER BY datetime(created_at) DESC LIMIT 1
CallReadAssessment(c) ==
    /\ calls[c].pc = "assessment"
    /\ calls' = [calls EXCEPT ![c].as = LatestAssessment(assessments, calls[c].patient),
                              ![c].pc = "priorities"]
    /\ UNCHANGED <<now, session, patients, bezugspflege, medications, assessments, nurse_notes,
                   patient_priorities, ai_tasks, ai_alerts, nextTaskId, nextMedId,
                   lastOp, prevTasks, prevPriorities, prevMeds>>

\* SELECT problem FROM patient_priorities ... ORDER BY priority_rank
CallReadPriorities(c) ==
    /\ calls[c].pc = "priorities"
    /\ calls' = [calls EXCEPT ![c].pr = OfPatient(patient_priorities, calls[c].patient),
                              ![c].pc = "note"]
    /\ UNCHANGED <<now, session, patients, bezugspflege, medications, assessments, nurse_notes,
                   patient_priorities, ai_tasks, ai_alerts, nextTaskId, nextMedId,
                   lastOp, prevTasks, prevPriorities, prevMeds>>

\* extract_problems_from_nurse_notes(conn, patient_id)
CallReadNote(c) ==
    /\ calls[c].pc = "note"
    /\ \E spoken \in ListsOfSet(extract_problems_from_nurse_notes(nurse_notes, calls[c].patient)) :
          calls' = [calls EXCEPT ![c].spoken = spoken, ![c].pc = "write"]
    /\ UNCHANGED <<now, session, patients, bezugspflege, medications, assessments, nurse_notes,
                   patient_priorities, ai_tasks, ai_alerts, nextTaskId, nextMedId,
                   lastOp, prevTasks, prevPriorities, prevMeds>>

\* the transaction: the problems of the rows read are persisted, their
\* tasks replaced, and generate_ai_alerts reads and writes inside it
CallWrite(c) ==
    /\ calls[c].pc = "write"
    /\ \E p \in {calls[c].patient} :
       \E problems \in {RankProblems(CollectProblems(calls[c].pr, calls[c].as, <<>>, p,
                                                     calls[c].spoken))} :
       \E st \in {GenerateTasks([tasks |-> ai_tasks, next |-> nextTaskId], p,
                                CatalogOf(problems), now)} :
          /\ patient_priorities' = PersistPriorities(patient_priorities, p, problems)
          /\ ai_tasks' = st.tasks
          /\ nextTaskId' = st.next
          /\ ai_alerts' = generate_ai_alerts(ai_alerts, assessments, medications, p, now)
          /\ History("call", p, TRUE)
    /\ calls' = [calls EXCEPT ![c] = IdleCall]
    /\ UNCHANGED <<now, session, patients, bezugspflege, medications, assessments,
                   nurse_notes, nextMedId>>

\* POST /patient/<p>/flowsheet with form f, up to the call of
\* generate_priorities_and_tasks, which caller c then makes
FlowsheetThenCall(c, p, f) ==
    /\ calls[c].pc = "idle"
    /\ \E a \in {FlowsheetRow(p, f, session, now)} :
       \E as1 \in {Append(assessments, a)} :
       \E st1 \in {FlowsheetTasks([tasks |-> ai_tasks, next |-> nextTaskId], p, a, now)} :
       \E notes1 \in {FlowsheetNotes(nurse_notes, p, f.other_notes, session, now)} :
          /\ assessments' = as1
          /\ nurse_notes' = notes1
          /\ bezugspflege' = update_bezugspflege_by_interactions(bezugspflege, notes1, as1, p)
          /\ ai_tasks' = st1.tasks
          /\ nextTaskId' = st1.next
    /\ calls' = [calls EXCEPT ![c] = [IdleCall EXCEPT !.pc = "assessment", !.patient = p]]
    /\ History("chart", p, FALSE)
    /\ UNCHANGED <<now, session, patients, medications, patient_priorities, ai_alerts, nextMedId>>

\* POST /patient/<p>/flowsheet with form f
Flowsheet(p, f) ==
    /\ \E a \in {FlowsheetRow(p, f, session, now)} :
       \E as1 \in {Append(assessments, a)} :
       \E st1 \in {FlowsheetTasks([tasks |-> ai_tasks, next |-> nextTaskId], p, a, now)} :
       \E notes1 \in {FlowsheetNotes(nurse_notes, p, f.other_notes, session, now)} :
       \E spoken \in ListsOfSet(extract_problems_from_nurse_notes(notes1, p)) :
       \E r \in {generate_priorities_and_tasks(patient_priorities, st1.tasks, st1.next,
                    ai_alerts, as1, notes1, medications, p, spoken, now)} :
          /\ assessments' = as1
          /\ nurse_notes' = notes1
          /\ bezugspflege' = update_bezugspflege_by_interactions(bezugspflege, notes1, as1, p)
          /\ patient_priorities' = r.priorities
          /\ ai_tasks' = r.tasks
          /\ nextTaskId' = r.next
          /\ ai_alerts' = r.alerts
    /\ Did("flowsheet", p, TRUE)
    /\ UNCHANGED <<now, session, patients, medications, nextMedId>>

\* POST /voice-doc for patient p with the spoken text and the selected lines
VoiceDoc(p, spoken_text, selected) ==
    /\ session # 0
    /\ IF spoken_text # ""
       THEN \E notes1 \in {Append(nurse_notes,
                               NoteRow(p, spoken_text, NowStrftime(now),
                                       AuthorName(session, "Sprachdokumentation")))} :
            \E as1 \in {Append(assessments, EmptyRow(p, now))} :
            \E spoken \in ListsOfSet(extract_problems_from_nurse_notes(notes1, p)) :
            \E r \in {generate_priorities_and_tasks(patient_priorities, ai_tasks,
                         nextTaskId, ai_alerts, as1, notes1, medications, p, spoken, now)} :
            \E st2 \in {InsertSelected([tasks |-> r.tasks, next |-> r.next], p, selected, now)} :
               /\ assessments' = as1
               /\ nurse_notes' = notes1
               /\ bezugspflege' = update_bezugspflege_by_interactions(bezugspflege, notes1, as1, p)
               /\ patient_priorities' = r.priorities
               /\ ai_tasks' = st2.tasks
               /\ nextTaskId' = st2.next
               /\ ai_alerts' = r.alerts
       ELSE \E st2 \in {InsertSelected([tasks |-> ai_tasks, next |-> nextTaskId], p, selected, now)} :
               /\ ai_tasks' = st2.tasks
               /\ nextTaskId' = st2.next
               /\ UNCHANGED <<assessments, nurse_notes, bezugspflege, patient_priorities, ai_alerts>>
    /\ Did(IF spoken_text # "" THEN "voice_doc" ELSE "voice_select", p, spoken_text # "")
    /\ UNCHANGED <<now, session, patients, medications, nextMedId>>

\* POST /tasks/<id>/toggle, task_type "ai"; an id without row changes nothing
ToggleTask(id) ==
    /\ IF \E i \in 1..Len(ai_tasks) : ai_tasks[i].id = id
       THEN \E i \in {k \in 1..Len(ai_tasks) : ai_tasks[k].id = id} :
            \E st \in {toggle_task_ai([tasks |-> ai_tasks, next |-> nextTaskId], i, now)} :
               /\ ai_tasks' = st.tasks
               /\ nextTaskId' = st.next
       ELSE UNCHANGED <<ai_tasks, nextTaskId>>
    /\ Did(IF \A i \in 1..Len(ai_tasks) : ai_tasks[i].id # id THEN "no_task"
           ELSE IF \E i \in 1..Len(ai_tasks) : ai_tasks[i].id = id /\ IsOpen(ai_tasks[i])
                THEN "complete" ELSE "undo",
           id, FALSE)
    /\ UNCHANGED <<now, session, patients, bezugspflege, medications, assessments, nurse_notes,
                   patient_priorities, ai_alerts, nextMedId>>

\* POST /tasks/<id>/toggle with task_type "med" and form field action
RecordDose(id, action) ==
    /\ IF \E i \in 1..Len(medications) : medications[i].id = id
       THEN \E i \in {j \in 1..Len(medications) : medications[j].id = id} :
            \E st \in {toggle_task_med([meds |-> medications, next |-> nextMedId],
                                       i, action, session, now)} :
               /\ medications' = st.meds
               /\ nextMedId' = st.next
               /\ Did(DoseOp(medications[i], action), id, FALSE)
       ELSE /\ UNCHANGED <<medications, nextMedId>>
            /\ Did("no_med", id, FALSE)
    /\ UNCHANGED <<now, session, patients, bezugspflege, assessments, nurse_notes,
                   patient_priorities, ai_tasks, ai_alerts, nextTaskId>>

\* GET /: the baseline-task guarantor runs for a selected nurse
Home ==
    /\ session # 0
    /\ \E st \in {ensure_standard_vitals_tasks([tasks |-> ai_tasks, next |-> nextTaskId],
                                               patients, now)} :
          /\ ai_tasks' = st.tasks
          /\ nextTaskId' = st.next
    /\ Did("home", 0, FALSE)
    /\ UNCHANGED <<now, session, patients, bezugspflege, medications, assessments, nurse_notes,
                   patient_priorities, ai_alerts, nextMedId>>

----------------------------------------------------------------------------
(* Inputs *)

Form(temperature, heart_rate, respiration_rate, systolic_bp, diastolic_bp, oxygen_sat, weight, pain, mobility, confusion, other_notes) ==
    [temperature |-> temperature, heart_rate |-> heart_rate,
     respiration_rate |-> respiration_rate, systolic_bp |-> systolic_bp,
     diastolic_bp |-> diastolic_bp, oxygen_sat |-> oxygen_sat, weight |-> weight,
     pain |-> pain, mobility |-> mobility, confusion |-> confusion,
     other_notes |-> other_notes]

\* flowsheet forms of the scheduler specification, none with a vital sign:
\* weight and slight pain charted; severe pain charted
TaskForms ==
    { Form(NULL, NULL, NULL, NULL, NULL, NULL, 70, 2, NULL, NULL, ""),
      Form(NULL, NULL, NULL, NULL, NULL, NULL, NULL, 8, NULL, NULL, "") }

\* flowsheet forms of the priority specification: nothing charted but a
\* note; hypoxia with shock; a saturation of 91 alone; pain, immobility,
\* confusion and fever; everything normal
CoreForms ==
    { Form(NULL, NULL, NULL, NULL, NULL, NULL, NULL, NULL, NULL, NULL, "Atemnot und Schmerzen"),
      Form(NULL, NULL, NULL, NULL, NULL, NULL, NULL, NULL, NULL, NULL, "verwirrt, fast gefallen"),
      Form(370, 80, NULL, 70, NULL, 85, NULL, NULL, NULL, NULL, ""),
      Form(NULL, NULL, NULL, NULL, NULL, 91, NULL, NULL, NULL, NULL, ""),
      Form(390, 80, 16, 120, 80, 97, NULL, 8, 2, 6, ""),
      Form(370, 80, 16, 120, 80, 97, 70, 2, 8, 0, "") }

\* flowsheet forms of the alert specification: every combination of absent,
\* just-outside and just-inside values of the three qSOFA vitals (with all
\* systolic thresholds), and of temperature, heart rate, saturation and
\* systolic pressure with a raised respiration rate
AlertForms ==
    { Form(NULL, NULL, rr, sbp, NULL, NULL, NULL, NULL, NULL, c, "") :
        rr \in {NULL, 21, 22}, sbp \in {NULL, 89, 90, 94, 95, 99, 100}, c \in {NULL, 4, 5} }
    \cup
    { Form(temp, hr, 22, sbp, NULL, o2, NULL, NULL, NULL, NULL, "") :
        temp \in {NULL, 384, 385}, hr \in {NULL, 120, 121}, o2 \in {NULL, 89, 90},
        sbp \in {NULL, 89, 90} }

\* flowsheet forms of the threshold specification: every combination of
\* absent, just-outside and just-inside values of the three scales, of
\* saturation, heart rate and systolic pressure, and of temperature and
\* respiration rate
ThresholdForms ==
    { Form(NULL, NULL, NULL, NULL, NULL, NULL, NULL, pain, mobility, c, "") :
        pain \in {NULL, 6, 7}, mobility \in {NULL, 3, 4}, c \in {NULL, 5, 6} }
    \cup
    { Form(NULL, hr, NULL, sbp, NULL, o2, NULL, NULL, NULL, NULL, "") :
        hr \in {NULL, 110, 111}, sbp \in {NULL, 89, 90}, o2 \in {NULL, 91, 92} }
    \cup
    { Form(temp, NULL, rr, NULL, NULL, NULL, NULL, NULL, NULL, NULL, "") :
        temp \in {NULL, 385, 386}, rr \in {NULL, 20, 21} }

\* the entry that precedes them: everything normal
NormalForms == { Form(370, 80, 16, 120, 80, 97, 70, 2, 8, 0, "") }

\* the entry that precedes them: hypoxia with shock
EarlierForms == { Form(370, 80, NULL, 70, NULL, 85, NULL, NULL, NULL, NULL, "") }

SpokenTexts == {"", "Atemnot und Schmerzen", "verwirrt, fast gefallen"}
SelectedLines == { <<>>, <<"Patient hat inhaliert", "Patient gelagert">> }

\* the bounds of a specification: on the state an operation starts from
\* (Room) and on the state it leaves (Within)
Room(maxTaskId) == nextTaskId <= maxTaskId
MayChart == Len(assessments) < MaxAssess
MayTick == now < MaxTime

Within(maxTaskId) ==
    /\ nextTaskId' - 1 <= maxTaskId
    /\ Len(nurse_notes') <= MaxNotes

----------------------------------------------------------------------------
(* The scheduler specification: one seeded patient; recompute, toggles,    *)
(* flowsheet entries without vital signs (complete_and_schedule_next and   *)
(* recompute) and the baseline-task guarantor                              *)

Init == InitSeed({1})

Next ==
    \/ MayTick /\ Tick
    \/ SelectNurse(1)
    \/ Room(MaxTaskId) /\ \E p \in patients : Recompute(p) /\ Within(MaxTaskId)
    \/ Room(MaxTaskId) /\ MayChart
         /\ \E p \in patients, f \in TaskForms : Flowsheet(p, f) /\ Within(MaxTaskId)
    \/ \E id \in 1..MaxTaskId : ToggleTask(id) /\ Within(MaxTaskId)
    \/ Home /\ Within(MaxTaskId)

Spec == Init /\ [][Next]_vars

----------------------------------------------------------------------------
(* The priority specification: one seeded patient (either of two);         *)
(* documentation events and recomputes, no toggles                         *)

InitPriorities == \E p \in {1, 2} : InitSeed({p})

NextPriorities ==
    \/ MayTick /\ Tick
    \/ Room(MaxGeneratedId) /\ \E p \in patients : Recompute(p) /\ Within(MaxGeneratedId)
    \/ Room(MaxGeneratedId) /\ MayChart
         /\ \E p \in patients, f \in CoreForms : Flowsheet(p, f) /\ Within(MaxGeneratedId)

SpecPriorities == InitPriorities /\ [][NextPriorities]_vars

----------------------------------------------------------------------------
(* The alert specification: two seeded patients, the first on bisoprolol;  *)
(* flowsheet entries, the last of them from AlertForms, and runs of the    *)
(* alert engine                                                            *)

InitAlerts == InitSeed({1, 2})

NextAlerts ==
    \/ MayTick /\ Tick
    \/ \E p \in patients : GenerateAlerts(p)
    \/ MayChart
         /\ \E p \in patients :
              \E f \in IF Len(assessments) + 1 < MaxAssess THEN EarlierForms ELSE AlertForms :
                 Flowsheet(p, f)

SpecAlerts == InitAlerts /\ [][NextAlerts]_vars

----------------------------------------------------------------------------
(* The dose specification: one seeded patient with two medications; the    *)
(* nurse is selected or not; dose actions on every medication row and on   *)
(* an id without row.  The undo specification is the same with room for    *)
(* one more medication row.                                                *)

DoseActions == {"given", "not_given"}

\* the ids of the medication rows, and one id that has no row
DoseIds == {medications[i].id : i \in 1..Len(medications)} \cup {nextMedId}

InitDoses == InitSeed({2})

DoseStep(maxMedId) ==
    \/ MayTick /\ Tick
    \/ SelectNurse(1)
    \/ \E id \in DoseIds, action \in DoseActions :
          RecordDose(id, action) /\ nextMedId' <= maxMedId + 1

NextDoses == DoseStep(MaxMedId)

SpecDoses == InitDoses /\ [][NextDoses]_vars

NextDoseUndo == DoseStep(MaxUndoMedId)

SpecDoseUndo == InitDoses /\ [][NextDoseUndo]_vars

----------------------------------------------------------------------------
(* The guarantor specification: two seeded patients; flowsheet entries     *)
(* with and without vital signs and the home page of a selected nurse     *)

NextGuarantor ==
    \/ MayTick /\ Tick
    \/ SelectNurse(1)
    \/ Room(MaxGeneratedId) /\ MayChart
         /\ \E p \in patients, f \in EarlierForms \cup TaskForms :
              Flowsheet(p, f) /\ Within(MaxGeneratedId)
    \/ Home /\ Within(MaxGeneratedId)

SpecGuarantor == InitAlerts /\ [][NextGuarantor]_vars

----------------------------------------------------------------------------
(* The threshold specification: one seeded patient (either of two);        *)
(* flowsheet entries, the last of them from ThresholdForms, and recomputes *)

NextVitals ==
    \/ MayTick /\ Tick
    \/ Room(MaxGeneratedId) /\ \E p \in patients : Recompute(p) /\ Within(MaxGeneratedId)
    \/ Room(MaxGeneratedId) /\ MayChart
         /\ \E p \in patients :
              \E f \in IF Len(assessments) + 1 < MaxAssess THEN NormalForms ELSE ThresholdForms :
                 Flowsheet(p, f) /\ Within(MaxGeneratedId)

SpecVitals == InitPriorities /\ [][NextVitals]_vars

----------------------------------------------------------------------------
(* Vocabulary of the properties *)

\* a patient's persisted problems: labels, labels with ranks, number of rows
ProblemSet(pr, p) == {r.problem : r \in Range(OfPatient(pr, p))}
RankedProblems(pr, p) == {<<r.priority_rank, r.problem>> : r \in Range(OfPatient(pr, p))}
ProblemCount(pr, p) == Len(OfPatient(pr, p))

\* a patient's stored alerts, without their time stamps
AlertSet(al, p) == {[alert |-> r.alert, severity |-> r.severity] : r \in Range(OfPatient(al, p))}

\* a patient's open tasks, and their descriptions with due times
OpenTasks(tk, p) == SelectSeq(OfPatient(tk, p), IsOpen)
OpenTaskSet(tk, p) == {<<r.description, r.due_time>> : r \in Range(OpenTasks(tk, p))}

\* the open tasks of a table that share patient and description with row r
OpenInstances(tk, r) ==
    {j \in 1..Len(tk) : IsOpen(tk[j]) /\ tk[j].patient = r.patient
                                     /\ tk[j].description = r.description}

TaskIds(tk) == {tk[i].id : i \in 1..Len(tk)}

----------------------------------------------------------------------------
(* Properties of the scheduler and of the priority engine *)

\* C1. Idempotence of recompute: when the recompute of a patient runs and
\* the operation before it was a recompute of the same patient (time may
\* have passed, nothing else has happened), it leaves the persisted problems
\* (labels and ranks), the alert set and the open tasks (descriptions and
\* due times, none twice) as they were.
C1_RecomputeTwiceChangesNothing ==
    [][ \A p \in patients :
          ( /\ lastOp = [op |-> "recompute", arg |-> p]
            /\ lastOp' = lastOp
            /\ now' = now )
          => /\ RankedProblems(patient_priorities', p) = RankedProblems(patient_priorities, p)
             /\ AlertSet(ai_alerts', p) = AlertSet(ai_alerts, p)
             /\ OpenTaskSet(ai_tasks', p) = OpenTaskSet(ai_tasks, p)
             /\ Cardinality(OpenTaskSet(ai_tasks', p)) = Len(OpenTasks(ai_tasks', p)) ]_vars

\* C2. Recurrence on completion: a toggle of an open task with description D
\* and due time T completes that row and no other, changes no other row, and
\* appends one open row for the same patient with description D, a fresh id
\* and due time T + interval(D).
C2_CompletionSchedulesFromDueTime ==
    [][ \A i \in 1..Len(ai_tasks) :
          ( /\ lastOp' = [op |-> "complete", arg |-> ai_tasks[i].id]
            /\ IsOpen(ai_tasks[i]) )
          => /\ Len(ai_tasks') = Len(ai_tasks) + 1
             /\ \A j \in 1..Len(ai_tasks) :
                   ai_tasks'[j] = IF j = i THEN [ai_tasks[i] EXCEPT !.completed = 1]
                                  ELSE ai_tasks[j]
             /\ LET new == ai_tasks'[Len(ai_tasks')]
                    T == ai_tasks[i].due_time
                    D == ai_tasks[i].description
                IN /\ new.id \notin TaskIds(ai_tasks)
                   /\ new.patient = ai_tasks[i].patient
                   /\ new.description = D
                   /\ new.completed = 0
                   /\ new.due_time = [kind |-> T.kind,
                                      wall |-> T.wall + get_default_interval_hours(D)] ]_vars

\* a task has just been completed at a time other than its due time, and its
\* next occurrence is due one interval after that due time
C2_Witness ==
    /\ lastOp.op = "complete"
    /\ \E i, j \in 1..Len(ai_tasks) :
          /\ ai_tasks[i].id = lastOp.arg
          /\ ~IsOpen(ai_tasks[i])
          /\ ai_tasks[i].due_time.wall # now
          /\ j = Len(ai_tasks)
          /\ IsOpen(ai_tasks[j])
          /\ ai_tasks[j].description = ai_tasks[i].description
          /\ ai_tasks[j].due_time.wall
               = ai_tasks[i].due_time.wall + get_default_interval_hours(ai_tasks[i].description)

\* C3. Task undo round trip: when a task that was the only open task of its
\* patient and description is completed and the next operation toggles the
\* same id again, the task table is the table before the first toggle.
C3_UndoRoundTrip ==
    ( /\ lastOp.op = "undo"
      /\ prevTasks # <<>>
      /\ \E i \in 1..Len(prevTasks) :
            /\ prevTasks[i].id = lastOp.arg
            /\ OpenInstances(prevTasks, prevTasks[i]) = {i} )
    => ai_tasks = prevTasks

\* a completion has just been undone: the table is the one before, and the
\* id handed to the next occurrence is gone from it
C3_Witness ==
    /\ lastOp.op = "undo"
    /\ prevTasks # <<>>
    /\ ai_tasks = prevTasks
    /\ \E i \in 1..Len(ai_tasks) : ai_tasks[i].id = lastOp.arg /\ IsOpen(ai_tasks[i])
    /\ nextTaskId - 1 \notin TaskIds(ai_tasks)

\* C4. Single open instance per recurrence key: no patient has two open
\* tasks with the same description.
C4_SingleOpenInstance ==
    \A i, j \in 1..Len(ai_tasks) :
        ( /\ IsOpen(ai_tasks[i]) /\ IsOpen(ai_tasks[j])
          /\ ai_tasks[i].patient = ai_tasks[j].patient
          /\ ai_tasks[i].description = ai_tasks[j].description )
        => i = j

\* C5. Priority cap: no patient has more than 3 persisted problems.
C5_PriorityCap ==
    \A p \in patients : ProblemCount(patient_priorities, p) <= 3

\* a flowsheet entry that triggers four problems at once has been stored,
\* and three problems are persisted
C5_Witness ==
    /\ lastOp.op = "flowsheet"
    /\ \E p \in patients :
          /\ lastOp.arg = p
          /\ LET a == LatestAssessment(assessments, p)
             IN a # <<>> /\ Len(VitalsProblems(a[1])) >= 4
          /\ ProblemCount(patient_priorities, p) = 3

\* C6. Fallback exclusivity: a persisted problem set that contains the
\* fallback problem contains nothing else.
C6_FallbackAlone ==
    \A p \in patients :
        FALLBACK \in ProblemSet(patient_priorities, p)
        => ProblemSet(patient_priorities, p) = {FALLBACK}

\* C7 as stated. At any time every patient has at least one persisted problem.
C7_NeverEmpty ==
    \A p \in patients : ProblemSet(patient_priorities, p) # {}

\* C7. A recompute for a patient leaves that patient at least one persisted
\* problem, and a patient that has one never has none afterwards.
C7_NotEmptyAfterRecompute ==
    [][ \A p \in patients :
          ( \/ /\ lastOp'.op \in {"recompute", "flowsheet", "voice_doc"}
                /\ lastOp'.arg = p
                /\ now' = now
            \/ ProblemSet(patient_priorities, p) # {} )
          => ProblemSet(patient_priorities', p) # {} ]_vars

\* the first recompute of a patient has met no trigger and has persisted the
\* fallback problem
C7_Witness ==
    /\ lastOp.op = "recompute"
    /\ ProblemSet(prevPriorities, lastOp.arg) = {}
    /\ ProblemSet(patient_priorities, lastOp.arg) = {FALLBACK}

----------------------------------------------------------------------------
(* Properties of the alert engine *)

\* the qSOFA conditions a stored assessment meets
SepsisConditions(a) ==
    { c \in {"respiration_rate", "systolic_bp", "confusion"} :
        \/ c = "respiration_rate" /\ a.respiration_rate # NULL /\ a.respiration_rate >= 22
        \/ c = "systolic_bp" /\ a.systolic_bp # NULL /\ a.systolic_bp < 100
        \/ c = "confusion" /\ a.confusion # NULL /\ a.confusion >= 5 }

\* the alerts the rules of the alert engine call for
ExpectedAlerts(a, p) ==
    {m \in {FEVER, HYPOXIA, HYPOTENSION, TACHYCARDIA, SEPSIS, BETABLOCKER} :
        \/ m = FEVER /\ a.temperature # NULL /\ a.temperature >= 385
        \/ m = HYPOXIA /\ a.oxygen_sat # NULL /\ a.oxygen_sat < 90
        \/ m = HYPOTENSION /\ a.systolic_bp # NULL /\ a.systolic_bp < 90
        \/ m = TACHYCARDIA /\ a.heart_rate # NULL /\ a.heart_rate > 120
        \/ m = SEPSIS /\ Cardinality(SepsisConditions(a)) >= 2
        \/ m = BETABLOCKER
             /\ (\E i \in 1..Len(medications) :
                    medications[i].patient = p /\ medications[i].name = "Bisoprolol")
             /\ a.systolic_bp # NULL /\ a.systolic_bp < 95 }

\* C9 as stated. The sepsis alert is stored when the latest assessment meets
\* all three conditions and is not stored when it meets one or two of them.
C9_SepsisOnlyOnAllThree ==
    \A p \in patients :
        LET a == LatestAssessment(assessments, p) IN
        a # <<>> =>
            /\ Cardinality(SepsisConditions(a[1])) = 3 => SEPSIS \in AlertSet(ai_alerts, p)
            /\ Cardinality(SepsisConditions(a[1])) \in {1, 2} => SEPSIS \notin AlertSet(ai_alerts, p)

\* C9. The sepsis alert is stored exactly when the latest assessment meets at
\* least two of the three conditions.
C9_SepsisOnTwoOfThree ==
    \A p \in patients :
        LET a == LatestAssessment(assessments, p) IN
        a # <<>> =>
            ( SEPSIS \in AlertSet(ai_alerts, p) <=> Cardinality(SepsisConditions(a[1])) >= 2 )

\* the latest assessment meets exactly two conditions and the alert is stored
C9_Witness ==
    \E p \in patients :
        LET a == LatestAssessment(assessments, p) IN
        /\ a # <<>>
        /\ Cardinality(SepsisConditions(a[1])) = 2
        /\ SEPSIS \in AlertSet(ai_alerts, p)

\* C10. Alert snapshot: the stored alerts of a patient with a latest
\* assessment are the alerts the rules call for on that assessment, each
\* once, and nothing else.
C10_AlertSnapshot ==
    \A p \in patients :
        LET a == LatestAssessment(assessments, p) IN
        a # <<>> =>
            /\ AlertSet(ai_alerts, p) = ExpectedAlerts(a[1], p)
            /\ Len(OfPatient(ai_alerts, p)) = Cardinality(ExpectedAlerts(a[1], p))

\* a patient on bisoprolol had hypoxia alerts from an earlier entry; the
\* latest entry calls for the beta-blocker warning and against the hypoxia
\* alert, and the store holds the one without the other
C10_Witness ==
    \E p \in patients :
        LET rows == OfPatient(assessments, p)
            a == LatestAssessment(assessments, p)
        IN /\ Len(rows) >= 2
           /\ HYPOXIA \in ExpectedAlerts(rows[1], p)
           /\ a # <<>>
           /\ a[1] # rows[1]
           /\ BETABLOCKER \in ExpectedAlerts(a[1], p)
           /\ BETABLOCKER \in AlertSet(ai_alerts, p)
           /\ HYPOXIA \notin AlertSet(ai_alerts, p)

----------------------------------------------------------------------------
(* AlertEngine scenarios and frame *)

\* the assessment of the scenario: oxygen saturation 85, systolic pressure
\* 70, temperature 37.0, heart rate 80
IsShockScenario(a) ==
    /\ a.oxygen_sat = 85
    /\ a.systolic_bp = 70
    /\ a.temperature = 370
    /\ a.heart_rate = 80

\* C11. Scenario: whenever the stored alerts of a patient were computed from
\* a latest assessment with oxygen saturation 85, systolic pressure 70,
\* temperature 37 and heart rate 80, they hold the severe-hypoxia alert
\* (critical) and the hypotension/shock alert (critical), and hold neither
\* the fever alert nor the tachycardia alert.
C11_ShockScenario ==
    \A p \in patients :
        LET a == LatestAssessment(assessments, p) IN
        (a # <<>> /\ IsShockScenario(a[1])) =>
            /\ HYPOXIA \in AlertSet(ai_alerts, p)
            /\ HYPOTENSION \in AlertSet(ai_alerts, p)
            /\ HYPOXIA.severity = "critical"
            /\ HYPOTENSION.severity = "critical"
            /\ FEVER \notin AlertSet(ai_alerts, p)
            /\ TACHYCARDIA \notin AlertSet(ai_alerts, p)

\* the scenario's assessment is the latest of a patient and the alert
\* engine has stored alerts for it
C11_Witness ==
    \E p \in patients :
        LET a == LatestAssessment(assessments, p) IN
        /\ a # <<>>
        /\ IsShockScenario(a[1])
        /\ OfPatient(ai_alerts, p) # <<>>
        /\ lastOp.op \in {"flowsheet", "alerts"}

\* the step is a run of generate_ai_alerts for patient p
IsAlertRun(p) ==
    /\ lastOp'.op = "alerts"
    /\ lastOp'.arg = p
    /\ now' = now

\* C12. AlertEngine frame: a run of the alert engine for patient p changes
\* only alert rows of p: no problem, task, medication, assessment, note or
\* patient row changes and the alert rows of every other patient stay as
\* they are; when p has no assessment the run changes nothing.
C12_AlertFrame ==
    [][ \A p \in patients :
          IsAlertRun(p) =>
            /\ UNCHANGED <<patients, bezugspflege, medications, assessments, nurse_notes,
                           patient_priorities, ai_tasks, nextTaskId, nextMedId>>
            /\ NotOfPatient(ai_alerts', p) = NotOfPatient(ai_alerts, p)
            /\ (LatestAssessment(assessments, p) = <<>> => ai_alerts' = ai_alerts)
      ]_vars

\* the alert engine has run for a patient without any assessment while
\* another patient has stored alerts
C12_Witness ==
    /\ lastOp.op = "alerts"
    /\ OfPatient(assessments, lastOp.arg) = <<>>
    /\ NotOfPatient(ai_alerts, lastOp.arg) # <<>>

----------------------------------------------------------------------------
(* Properties of the dose cycle *)

\* the state of a dose row
DoseState(r) ==
    IF r.given = 1 /\ r.not_given = 0 THEN "given"
    ELSE IF r.given = 0 /\ r.not_given = 1 THEN "not_given"
    ELSE IF r.given = 0 /\ r.not_given = 0 THEN "open"
    ELSE "both"

\* the step records `action` on the row at index i and takes the branch that
\* marks the row and inserts the next dose
IsResolve(i, action) ==
    /\ lastOp' = [op |-> action, arg |-> medications[i].id]
    /\ nextMedId' = nextMedId + 1

\* C13. Dose resolution spawns the next dose: recording given (or
\* not_given) on an open dose row with next-due T and a schedule that
\* resolves to interval i marks that row given (resp. not_given), changes no
\* other row, and inserts exactly one new open row with the same patient,
\* drug name, dose, route and schedule and next-due T + i; the scheduling is
\* the same for both actions.  The schedule "alle 4h" resolves to 4 hours.
C13_ResolveSpawnsNextDose ==
    [][ \A i \in 1..Len(medications), action \in DoseActions :
          (IsResolve(i, action) /\ IsOpenDose(medications[i])) =>
            LET old == medications[i]
                n == Len(medications)
                new == medications'[n + 1]
            IN /\ Len(medications') = n + 1
               /\ \A j \in (1..n) \ {i} : medications'[j] = medications[j]
               /\ DoseState(medications'[i]) = action
               /\ medications'[i].id = old.id
               /\ medications'[i].next_due = old.next_due
               /\ IsOpenDose(new)
               /\ new.id \notin {medications[j].id : j \in 1..n}
               /\ new.patient = old.patient
               /\ new.name = old.name
               /\ new.dose = old.dose
               /\ new.route = old.route
               /\ new.schedule = old.schedule
               /\ new.next_due.kind = old.next_due.kind
               /\ new.next_due.wall = old.next_due.wall + get_med_interval_hours(old.schedule)
               /\ get_med_interval_hours("alle 4h") = 4
      ]_vars

\* the heparin dose (alle 8h) was open and has been recorded as not given;
\* the last row is its next dose, 8 hours after it
C13_Witness ==
    /\ lastOp.op = "not_given"
    /\ prevMeds # <<>>
    /\ \E i \in 1..Len(prevMeds) :
          /\ prevMeds[i].id = lastOp.arg
          /\ IsOpenDose(prevMeds[i])
          /\ prevMeds[i].name = "Heparin"
          /\ DoseState(medications[i]) = "not_given"
          /\ Len(medications) = Len(prevMeds) + 1
          /\ IsOpenDose(medications[Len(medications)])
          /\ medications[Len(medications)].next_due = PlusHours(prevMeds[i].next_due, 8)

\* C14. Actor is required and recorded: in every reachable state each dose
\* row that is marked given or not_given has a last_given_by that is not
\* NULL and a last_given_at that is not NULL.
C14_ActorRecorded ==
    \A i \in 1..Len(medications) :
        ~IsOpenDose(medications[i]) =>
            /\ medications[i].last_given_by # <<>>
            /\ medications[i].last_given_at # NoTime

\* C15. Dose flags are mutually exclusive: in every state reached by dose
\* actions (given, not_given and their undo) on any rows, no medication row
\* has both flags set; every row is in exactly one of the states open, given
\* and not_given.
C15_FlagsExclusive ==
    \A i \in 1..Len(medications) :
        /\ medications[i].given \in {0, 1}
        /\ medications[i].not_given \in {0, 1}
        /\ ~(medications[i].given = 1 /\ medications[i].not_given = 1)
        /\ DoseState(medications[i]) \in {"open", "given", "not_given"}

\* given has been recorded on a row that was marked not_given: the row is
\* marked given and its not_given flag is cleared
C15_Witness ==
    /\ lastOp.op = "given"
    /\ prevMeds # <<>>
    /\ \E i \in 1..Len(prevMeds) :
          /\ prevMeds[i].id = lastOp.arg
          /\ prevMeds[i].not_given = 1
          /\ medications[i].given = 1
          /\ medications[i].not_given = 0

\* the transitions of the dose state machine
DoseTransitions ==
    { <<"open", "given">>, <<"open", "not_given">>,
      <<"given", "open">>, <<"not_given", "open">> }

\* C16. Dose transitions are only those of the state machine: in every step
\* a dose row keeps its state or changes it by open -> given,
\* open -> not_given, given -> open or not_given -> open, and a step in which
\* a row leaves a resolved state inserts no row.
C16_OnlyMachineTransitions ==
    [][ \A i \in 1..Len(medications), j \in 1..Len(medications') :
          medications'[j].id = medications[i].id =>
            LET before == DoseState(medications[i])
                after == DoseState(medications'[j])
            IN /\ before # after => <<before, after>> \in DoseTransitions
               /\ (before # after /\ before # "open") => nextMedId' = nextMedId
      ]_vars

\* the name the history gives to the undo of a dose action
UndoOf(action) == IF action = "given" THEN "undo_given" ELSE "undo_not_given"

\* C17. Dose undo round trip: recording given (or not_given) on an open
\* dose row and then recording the same action again on that row leaves the
\* medication table as it was before the first action: the row open with
\* both flags cleared and actor and time NULL, the spawned next dose
\* deleted, every other row kept.
C17_DoseUndoRoundTrip ==
    [][ \A action \in DoseActions :
          ( /\ lastOp.op = action
            /\ lastOp' = [op |-> UndoOf(action), arg |-> lastOp.arg]
            /\ \E i \in 1..Len(prevMeds) :
                  prevMeds[i].id = lastOp.arg /\ IsOpenDose(prevMeds[i]) )
          => medications' = prevMeds
      ]_vars

\* the ids of the rows of a medication table
MedIds(meds) == {meds[i].id : i \in 1..Len(meds)}

\* the ids of the rows that are in both tables with different contents
ChangedMeds(old, new) ==
    { id \in MedIds(old) \cap MedIds(new) :
        \E i \in 1..Len(old), j \in 1..Len(new) :
            old[i].id = id /\ new[j].id = id /\ old[i] # new[j] }

\* C18. Bounded effect of one dose action: every dose action changes at
\* most the addressed row, and in addition inserts at most one row or
\* deletes at most one row.
C18_BoundedEffect ==
    [][ /\ ChangedMeds(medications, medications') \subseteq {lastOp'.arg}
        /\ Cardinality(MedIds(medications') \ MedIds(medications)) <= 1
        /\ Cardinality(MedIds(medications) \ MedIds(medications')) <= 1
        /\ \/ MedIds(medications') \subseteq MedIds(medications)
           \/ MedIds(medications) \subseteq MedIds(medications')
      ]_vars

----------------------------------------------------------------------------
(* Properties of the implicit completion and of the baseline guarantor *)

\* the descriptions of the open tasks of patient p that flowsheet row a
\* satisfies: the vitals keyword filter on any charted vital, the daily
\* pain inquiry on a charted pain value, the daily weight on a charted weight
MatchedDescriptions(tk, p, a) ==
    { d \in {tk[i].description : i \in {j \in 1..Len(tk) : tk[j].patient = p /\ IsOpen(tk[j])}} :
        \/ charted_any_vitals(a) /\ VitalsLike(d)
        \/ a.pain # NULL /\ d = T_SCHMERZ_TGL
        \/ a.weight # NULL /\ d = T_GEWICHT_TGL }

\* the open tasks of patient p with description d
OpenOf(tk, p, d) ==
    {i \in 1..Len(tk) : tk[i].patient = p /\ tk[i].description = d /\ IsOpen(tk[i])}

\* C19. Complete-and-schedule-next by description: a flowsheet entry that
\* satisfies a task class (any charted vital for the vitals keyword filter,
\* a charted pain value, a charted weight) leaves every task of the patient
\* that was open and matched completed, and leaves exactly one new open
\* task per distinct matched description.
C19_ImplicitCompletion ==
    [][ (lastOp'.op = "flowsheet" /\ Len(assessments') = Len(assessments) + 1) =>
          LET a == assessments'[Len(assessments')]
              p == a.patient
          IN \A d \in MatchedDescriptions(ai_tasks, p, a) :
                /\ \A i \in OpenOf(ai_tasks, p, d) :
                      \E j \in 1..Len(ai_tasks') :
                          ai_tasks'[j].id = ai_tasks[i].id /\ ~IsOpen(ai_tasks'[j])
                /\ Cardinality({j \in OpenOf(ai_tasks', p, d) :
                                    ai_tasks'[j].id \notin TaskIds(ai_tasks)}) = 1
      ]_vars

\* the step is a run of the baseline-task guarantor
IsGuarantorRun == lastOp'.op = "home" /\ now' = now

\* C20. Baseline-task guarantor: after a run every patient has at least one
\* open task for each of the three standing descriptions; the run keeps
\* every existing task row as it is and appends only open tasks with a
\* standing description for which the patient had no open task, one per
\* patient and description; a run that follows a run changes nothing.
C20_Guarantor ==
    [][ IsGuarantorRun =>
          LET n == Len(ai_tasks) IN
          /\ \A p \in patients, d \in Range(STANDARD_TASKS) : OpenOf(ai_tasks', p, d) # {}
          /\ Len(ai_tasks') >= n
          /\ SubSeq(ai_tasks', 1, n) = ai_tasks
          /\ \A j \in (n + 1)..Len(ai_tasks') :
                LET r == ai_tasks'[j] IN
                /\ IsOpen(r)
                /\ r.description \in Range(STANDARD_TASKS)
                /\ r.id \notin TaskIds(ai_tasks)
                /\ OpenOf(ai_tasks, r.patient, r.description) = {}
                /\ OpenOf(ai_tasks', r.patient, r.description) = {j}
          /\ lastOp.op = "home" => ai_tasks' = ai_tasks
      ]_vars

\* the guarantor has run and the newest task is one it inserted: an open
\* standing task, the only open one of its description, due at the time of
\* the run, beside an older completed task of the same description
C20_Witness ==
    /\ lastOp.op = "home"
    /\ ai_tasks # <<>>
    /\ LET r == ai_tasks[Len(ai_tasks)] IN
          /\ r.id = nextTaskId - 1
          /\ IsOpen(r)
          /\ r.description \in Range(STANDARD_TASKS)
          /\ r.due_time.kind = "aware"
          /\ r.due_time.wall <= now
          /\ OpenOf(ai_tasks, r.patient, r.description) = {Len(ai_tasks)}
          /\ \E i \in 1..(Len(ai_tasks) - 1) :
                /\ ai_tasks[i].patient = r.patient
                /\ ai_tasks[i].description = r.description
                /\ ~IsOpen(ai_tasks[i])
    /\ \A p \in patients, d \in Range(STANDARD_TASKS) : OpenOf(ai_tasks, p, d) # {}

----------------------------------------------------------------------------
(* Properties of the task generator and of the ranking *)

\* the step ends with a recompute for patient p: the recompute entry point
\* or a flowsheet entry
IsRecompute(p) ==
    /\ lastOp'.op \in {"recompute", "flowsheet"}
    /\ lastOp'.arg = p
    /\ now' = now

\* the tasks of patient p in table new that are open and not in table old
NewOpenTasks(old, new, p) ==
    {<<new[j].description, new[j].due_time>> :
        j \in {k \in 1..Len(new) : new[k].patient = p /\ IsOpen(new[k])
                                    /\ new[k].id \notin TaskIds(old)}}

\* C21. Task generation from problems: after a recompute, for every
\* persisted problem of the patient and every task description the catalog
\* maps it to, exactly one open task with that description exists for the
\* patient, inserted by this recompute and due at the time of the recompute
\* plus the description's interval; a recompute that leaves the problem set
\* {hypoxia risk} creates exactly two open tasks, the SpO2/respiration task
\* due in 2 hours and the upper-body task due in 4 hours.
C21_TasksFromProblems ==
    [][ \A p \in patients :
          IsRecompute(p) =>
            /\ \A prob \in ProblemSet(patient_priorities', p) :
               \A d \in Range(TaskDescriptions(prob)) :
                  \E j \in 1..Len(ai_tasks') :
                      /\ OpenOf(ai_tasks', p, d) = {j}
                      /\ ai_tasks'[j].id \notin TaskIds(ai_tasks)
                      /\ ai_tasks'[j].due_time = Aware(now + get_default_interval_hours(d))
            /\ (lastOp'.op = "recompute" /\ ProblemSet(patient_priorities', p) = {HYPOXIE}) =>
                  NewOpenTasks(ai_tasks, ai_tasks', p)
                    = {<<T_SPO2, Aware(now + 2)>>, <<T_OBERKOERPER, Aware(now + 4)>>}
      ]_vars

\* a recompute has left the problem set {hypoxia risk}; the patient had an
\* open SpO2 task with an earlier due time, and has exactly one now
C21_Witness ==
    /\ lastOp.op = "recompute"
    /\ \E p \in patients :
          /\ lastOp.arg = p
          /\ ProblemSet(patient_priorities, p) = {HYPOXIE}
          /\ ProblemSet(prevPriorities, p) = {HYPOXIE}
          /\ now > 0
          /\ \E j \in 1..Len(ai_tasks) :
                /\ OpenOf(ai_tasks, p, T_SPO2) = {j}
                /\ ai_tasks[j].due_time = Aware(now + 2)
                /\ ai_tasks[j].id = nextTaskId - 2

\* the rank of problem x of patient p in table pr
RankOf(pr, p, x) ==
    (CHOOSE r \in Range(OfPatient(pr, p)) : r.problem = x).priority_rank

\* the problems the thresholds yield on the latest assessment of p
VitalsDerived(as, p) ==
    LET a == LatestAssessment(as, p) IN
    IF a = <<>> THEN {} ELSE Range(VitalsProblems(a[1]))

\* C22. Tie-break order of the ranking: after a recompute, of two persisted
\* problems of equal weight one that was persisted before ranks before one
\* that was not, and of two that were not persisted before one derived from
\* the latest assessment ranks before one derived from the latest note.
C22_TieBreakOrder ==
    [][ \A p \in patients :
          IsRecompute(p) =>
            LET before == ProblemSet(patient_priorities, p)
                after == ProblemSet(patient_priorities', p)
                vitals == VitalsDerived(assessments', p)
                noted == extract_problems_from_nurse_notes(nurse_notes', p)
            IN \A x, y \in after :
                 (x # y /\ Weight(x) = Weight(y)) =>
                   /\ (x \in before /\ y \notin before) =>
                         RankOf(patient_priorities', p, x) < RankOf(patient_priorities', p, y)
                   /\ (x \notin before /\ y \notin before
                       /\ x \in vitals \ noted /\ y \in noted \ vitals) =>
                         RankOf(patient_priorities', p, x) < RankOf(patient_priorities', p, y)
      ]_vars

\* the triage class of a problem label: airway/breathing, circulation,
\* neuro, safety/infection, pain, fallback
TriageClass(x) ==
    IF x \in {HYPOXIE, ATEMNOT} THEN 1
    ELSE IF x \in {HYPOTONIE, TACHYKARDIE} THEN 2
    ELSE IF x = VERWIRRTHEIT THEN 3
    ELSE IF x \in {INFEKTION, STURZ} THEN 4
    ELSE IF x \in {SCHMERZEN, STARKE_SCHMERZEN} THEN 5
    ELSE 6

\* C23. Ranked problem set is well formed: the persisted problems of a
\* patient have pairwise distinct labels and ranks exactly 1..n with n <= 3,
\* the weights do not decrease along the ranks, airway/breathing comes
\* before circulation before neuro before safety/infection before pain, and
\* the fallback problem comes after every other problem.
C23_RankedSetWellFormed ==
    \A p \in patients :
        LET rows == OfPatient(patient_priorities, p)
            n == Len(rows)
        IN /\ n <= 3
           /\ {rows[i].priority_rank : i \in 1..n} = 1..n
           /\ \A i, j \in 1..n :
                 /\ i # j => rows[i].problem # rows[j].problem
                 /\ i # j => rows[i].priority_rank # rows[j].priority_rank
                 /\ rows[i].priority_rank < rows[j].priority_rank =>
                       /\ Weight(rows[i].problem) <= Weight(rows[j].problem)
                       /\ TriageClass(rows[i].problem) <= TriageClass(rows[j].problem)
                       /\ rows[i].problem # FALLBACK

\* a patient whose fallback problem was persisted first has three problems:
\* respiratory distress, the note's pain problem and the fallback, in that order
C23_Witness ==
    \E p \in patients :
        /\ FALLBACK \in ProblemSet(prevPriorities, p)
        /\ RankedProblems(patient_priorities, p)
             = {<<1, ATEMNOT>>, <<2, STARKE_SCHMERZEN>>, <<3, FALLBACK>>}

\* the problems of the fixed thresholds on assessment row a
ThresholdProblems(a) ==
    { x \in {SCHMERZEN, STURZ, VERWIRRTHEIT, HYPOXIE, TACHYKARDIE, HYPOTONIE, INFEKTION, ATEMNOT} :
        \/ x = SCHMERZEN /\ a.pain # NULL /\ a.pain >= 7
        \/ x = STURZ /\ a.mobility # NULL /\ a.mobility <= 3
        \/ x = VERWIRRTHEIT /\ a.confusion # NULL /\ a.confusion >= 6
        \/ x = HYPOXIE /\ a.oxygen_sat # NULL /\ a.oxygen_sat < 92
        \/ x = TACHYKARDIE /\ a.heart_rate # NULL /\ a.heart_rate > 110
        \/ x = HYPOTONIE /\ a.systolic_bp # NULL /\ a.systolic_bp < 90
        \/ x = INFEKTION /\ a.temperature # NULL /\ a.temperature > 385
        \/ x = ATEMNOT /\ a.respiration_rate # NULL /\ a.respiration_rate > 20 }

\* C24. Vitals-derived problems: the problems a recompute adds from the
\* latest assessment are exactly those of the fixed thresholds (pain >= 7,
\* mobility <= 3, confusion >= 6, oxygen_sat < 92, heart_rate > 110,
\* systolic_bp < 90, temperature > 38.5, respiration_rate > 20; a missing
\* value adds nothing): a problem persisted after the recompute that was not
\* persisted before and does not come from the latest note or the fallback
\* is one of them, and each of them is persisted unless three problems of
\* at most its weight are.
C24_VitalsProblems ==
    [][ \A p \in patients :
          (IsRecompute(p) /\ LatestAssessment(assessments', p) # <<>>) =>
            LET a == LatestAssessment(assessments', p)[1]
                before == ProblemSet(patient_priorities, p)
                after == ProblemSet(patient_priorities', p)
                noted == extract_problems_from_nurse_notes(nurse_notes', p)
            IN /\ after \ (before \cup noted \cup {FALLBACK}) \subseteq ThresholdProblems(a)
               /\ \A x \in ThresholdProblems(a) \ after :
                     /\ ProblemCount(patient_priorities', p) = 3
                     /\ \A y \in after : Weight(y) <= Weight(x)
      ]_vars

\* a flowsheet entry with temperature 38.5 and respiration rate 21 has
\* added respiratory distress and not the infection risk
C24_Witness ==
    /\ lastOp.op = "flowsheet"
    /\ \E p \in patients :
          LET a == LatestAssessment(assessments, p) IN
          /\ lastOp.arg = p
          /\ a # <<>>
          /\ a[1].temperature = 385
          /\ a[1].respiration_rate = 21
          /\ ATEMNOT \in ProblemSet(patient_priorities, p) \ ProblemSet(prevPriorities, p)
          /\ INFEKTION \notin ProblemSet(patient_priorities, p)

\* C25. Recompute without an assessment: a recompute for a patient who has
\* no assessment persists the union of the problems persisted before and
\* the problems of the most recent nurse note, or the fallback alone when
\* that union is empty, and nothing else; it generates the tasks of the
\* persisted problems and leaves the alerts as they are.
C25_RecomputeWithoutAssessment ==
    [][ \A p \in patients :
          ( /\ lastOp'.op = "recompute"
            /\ lastOp'.arg = p
            /\ now' = now
            /\ OfPatient(assessments, p) = <<>> ) =>
            LET before == ProblemSet(patient_priorities, p)
                noted == extract_problems_from_nurse_notes(nurse_notes, p)
                after == ProblemSet(patient_priorities', p)
            IN /\ after = IF before \cup noted = {} THEN {FALLBACK} ELSE before \cup noted
               /\ \A prob \in after : \A d \in Range(TaskDescriptions(prob)) :
                     \E j \in OpenOf(ai_tasks', p, d) : ai_tasks'[j].id \notin TaskIds(ai_tasks)
               /\ ai_alerts' = ai_alerts
               /\ assessments' = assessments
      ]_vars

\* a recompute has run for a patient without assessment whose latest note
\* speaks of shortness of breath: respiratory distress is persisted, its
\* SpO2 task is open and there is no alert
C25_Witness ==
    /\ lastOp.op = "recompute"
    /\ \E p \in patients :
          /\ lastOp.arg = p
          /\ OfPatient(assessments, p) = <<>>
          /\ ATEMNOT \in extract_problems_from_nurse_notes(nurse_notes, p)
          /\ ProblemSet(prevPriorities, p) = {}
          /\ ProblemSet(patient_priorities, p) = {ATEMNOT}
          /\ OpenOf(ai_tasks, p, T_SPO2) # {}
          /\ OfPatient(ai_alerts, p) = <<>>

----------------------------------------------------------------------------
(* The scoring specification: one seeded patient; any nurse or none is     *)
(* selected, doses are recorded and flowsheet entries, with or without a   *)
(* note, run the assignment scorer                                         *)

ScoringForms ==
    { Form(NULL, NULL, NULL, NULL, NULL, NULL, NULL, NULL, NULL, NULL, ""),
      Form(NULL, NULL, NULL, NULL, NULL, NULL, NULL, NULL, NULL, NULL, "Atemnot und Schmerzen") }

NextScoring ==
    \/ \E n \in DOMAIN NURSES : SelectNurse(n)
    \/ Logout
    \/ \E id \in DoseIds, action \in DoseActions :
          RecordDose(id, action) /\ nextMedId' <= MaxScoredMedId + 1
    \/ Room(MaxGeneratedId) /\ MayChart
         /\ \E p \in patients, f \in ScoringForms :
              Flowsheet(p, f) /\ Within(MaxGeneratedId)

SpecScoring == InitDoses /\ [][NextScoring]_vars

----------------------------------------------------------------------------
(* The assignment specification: two seeded patients; any nurse or none is *)
(* selected and flowsheet entries, with or without a note, run the scorer  *)

NextAssignment ==
    \/ \E n \in DOMAIN NURSES : SelectNurse(n)
    \/ Logout
    \/ \E p \in patients : Rescore(p)
    \/ Room(MaxGeneratedId) /\ MayChart
         /\ \E p \in patients, f \in ScoringForms :
              Flowsheet(p, f) /\ Within(MaxGeneratedId)

SpecAssignment == InitAlerts /\ [][NextAssignment]_vars

\* the doses of the patient that are marked as given by the nurse
GivenBy(meds, p, n) ==
    Cardinality({i \in 1..Len(meds) :
                    /\ meds[i].patient = p
                    /\ meds[i].given = 1
                    /\ meds[i].last_given_by = <<NURSES[n]>>})

\* the scorer has just run for the patient, in a flowsheet entry or alone
IsScoring(p) == lastOp'.op \in {"flowsheet", "score"} /\ lastOp'.arg = p

\* C26. Assignment score: at every scoring, the score of nurse n for the
\* patient is 2 x the patient's notes authored by n + 1 x the patient's
\* assessments authored by n + 1 x the patient's doses given by n.
C26_DosesCounted ==
    [][ \A p \in patients : IsScoring(p) =>
          \A n \in DOMAIN NURSES :
             Score(nurse_notes', assessments', p, n)
                = 2 * AuthoredBy(nurse_notes', p, n) + 1 * AuthoredBy(assessments', p, n)
                    + 1 * GivenBy(medications', p, n)
      ]_vars

\* the nurses with a score for the patient, and the best of their scores
Scorers(notes, as, p) == {n \in DOMAIN NURSES : Score(notes, as, p, n) > 0}
TopScorers(notes, as, p) ==
    {n \in Scorers(notes, as, p) :
        \A m \in Scorers(notes, as, p) : Score(notes, as, p, m) <= Score(notes, as, p, n)}

\* C27. Assignment winner: a scoring for a patient with no scored activity
\* changes no assignment; otherwise the nurse assigned afterwards is a
\* top-scoring nurse, and is the nurse assigned before whenever that nurse
\* is among the top-scoring ones; no other patient's assignment changes,
\* and the scorer run alone changes nothing but the assignment.
C27_AssignmentWinner ==
    [][ \A p \in patients : IsScoring(p) =>
          LET top == TopScorers(nurse_notes', assessments', p) IN
          /\ (top = {}) => bezugspflege' = bezugspflege
          /\ (top # {}) => bezugspflege'[p] \in top
          /\ (bezugspflege[p] \in top) => bezugspflege'[p] = bezugspflege[p]
          /\ \A q \in patients \ {p} : bezugspflege'[q] = bezugspflege[q]
          /\ (lastOp'.op = "score") =>
                UNCHANGED <<patient_priorities, ai_tasks, ai_alerts, nextTaskId, assessments,
                            nurse_notes, medications, nextMedId, session, now, patients>>
      ]_vars

\* a scoring has just found two nurses level at the top, one of them the
\* assigned nurse, who was not the first to be listed, and has kept her
C27_Witness ==
    /\ lastOp.op = "flowsheet"
    /\ \E p \in patients :
          /\ lastOp.arg = p
          /\ Cardinality(TopScorers(nurse_notes, assessments, p)) = 2
          /\ bezugspflege[p] \in TopScorers(nurse_notes, assessments, p)
          /\ bezugspflege[p] # ScoreKeys(nurse_notes, assessments, p)[1]
          /\ \E q \in patients : bezugspflege[q] # bezugspflege[p]

----------------------------------------------------------------------------
(* The unknown-id specification: one seeded patient (either of two, the    *)
(* other id is in no table); recompute and scoring for either id, a task   *)
(* toggle and a dose record for an id that was never handed out            *)

NextUnknown ==
    \/ MayTick /\ Tick
    \/ Room(MaxGeneratedId) /\ \E p \in {1, 2} : Recompute(p) /\ Within(MaxGeneratedId)
    \/ \E p \in {1, 2} : Rescore(p)
    \/ ToggleTask(nextTaskId)
    \/ \E action \in DoseActions : RecordDose(nextMedId, action)

SpecUnknown == InitPriorities /\ [][NextUnknown]_vars

\* the stored rows of every table
Stored ==
    <<patients, bezugspflege, medications, assessments, nurse_notes, patient_priorities,
      ai_tasks, ai_alerts>>

\* an operation has just run for an id that is in no table
IsUnknownId ==
    \/ lastOp'.op \in {"no_task", "no_med"}
    \/ lastOp'.op \in {"recompute", "score"} /\ lastOp'.arg \notin patients

\* C28. Unknown id is a no-op: a task toggle or a dose record for an id
\* that does not exist, and a recompute or a scoring for a patient id that
\* does not exist, change no stored row.
C28_UnknownIdNoOp == [][ IsUnknownId => UNCHANGED Stored ]_vars

----------------------------------------------------------------------------
(* The text specification: one patient with one open task and one open     *)
(* dose, whose description, schedule or due fields hold any of a set of    *)
(* texts; task toggles and dose records                                    *)

InitTexts ==
    \E d \in { T_VITAL, "Gewicht täglich messen", "SpO2 & AF alle 2h dokumentieren",
               "Schmerzskala alle 4h erheben", "Drainage alle 1h kontrollieren",
               "Verband alle 2 h wechseln", "Verband alle 2h, Hautkontrolle täglich",
               "Drainage alle 1h und alle 4h prüfen", "Täglich wiegen" },
       s \in { "alle 8h", "", "alle 1h", "alle 2h", "alle 4h", "1x täglich", "2x täglich",
               "3x täglich", "1x morgens", "abends", "Nachts", "alle 2 h", "2 x täglich",
               "3x täglich, alle 4h", "2x täglich morgens" },
       dt \in { Naive(1), NoTime, BadTime },
       dm \in { Naive(1), NoTime, BadTime } :
       /\ \/ d = T_VITAL /\ s = "alle 8h"
          \/ d = T_VITAL /\ dt = Naive(1) /\ dm = Naive(1)
          \/ s = "alle 8h" /\ dt = Naive(1) /\ dm = Naive(1)
          \/ /\ d = "Verband alle 2h, Hautkontrolle täglich"
             /\ s = "3x täglich, alle 4h"
             /\ dt = Naive(1) /\ dm = Naive(1)
       /\ now = 0
       /\ session = 0
       /\ patients = {2}
       /\ bezugspflege = [p \in {2} |-> 3]
       /\ medications = << MedRow(1, 2, "Heparin", "5000 IE", "s.c.", s, dm) >>
       /\ assessments = <<>>
       /\ nurse_notes = <<>>
       /\ patient_priorities = <<>>
       /\ ai_tasks = << TaskRow(1, 2, d, dt, 0) >>
       /\ ai_alerts = <<>>
       /\ nextTaskId = 2
       /\ nextMedId = 2
       /\ lastOp = NoOp
       /\ prevTasks = <<>>
       /\ prevPriorities = <<>>
       /\ prevMeds = <<>>
       /\ calls = NoCalls

NextTexts ==
    \/ MayTick /\ Tick
    \/ \E id \in {ai_tasks[i].id : i \in 1..Len(ai_tasks)} :
          ToggleTask(id) /\ nextTaskId' <= MaxTextId + 1
    \/ \E id \in {medications[i].id : i \in 1..Len(medications)}, action \in DoseActions :
          RecordDose(id, action) /\ nextMedId' <= MaxTextId + 1

SpecTexts == InitTexts /\ [][NextTexts]_vars

\* C29. Unparseable due time: completing a task whose due_time is missing
\* or does not parse, and recording given or not_given on an open dose
\* whose next_due is missing or does not parse, marks the row and inserts
\* one new open row of the same patient and text that is due at the current
\* time plus the resolved interval.
C29_UnparseableDue ==
    [][ /\ \A i \in 1..Len(ai_tasks) :
            ( /\ lastOp' = [op |-> "complete", arg |-> ai_tasks[i].id]
              /\ nextTaskId' = nextTaskId + 1
              /\ ~Parses(ai_tasks[i].due_time) ) =>
                /\ Len(ai_tasks') = Len(ai_tasks) + 1
                /\ ai_tasks'[i] = [ai_tasks[i] EXCEPT !.completed = 1]
                /\ \E new \in {ai_tasks'[Len(ai_tasks')]} :
                      /\ new.patient = ai_tasks[i].patient
                      /\ new.description = ai_tasks[i].description
                      /\ IsOpen(new)
                      /\ Parses(new.due_time)
                      /\ new.due_time.wall
                            = now + get_default_interval_hours(ai_tasks[i].description)
        /\ \A i \in 1..Len(medications), action \in DoseActions :
            ( /\ IsResolve(i, action)
              /\ ~Parses(medications[i].next_due) ) =>
                /\ Len(medications') = Len(medications) + 1
                /\ DoseState(medications'[i]) = action
                /\ \E new \in {medications'[Len(medications')]} :
                      /\ new.patient = medications[i].patient
                      /\ new.name = medications[i].name
                      /\ new.schedule = medications[i].schedule
                      /\ IsOpenDose(new)
                      /\ Parses(new.next_due)
                      /\ new.next_due.wall
                            = now + get_med_interval_hours(medications[i].schedule)
      ]_vars

\* a task whose due_time is no time has been completed and a dose without
\* next_due has been resolved, both an hour after the start, and their
\* successors are due 4 and 8 hours after that
C29_Witness ==
    /\ now = 1
    /\ \E i \in 1..Len(ai_tasks), j \in 1..Len(ai_tasks) :
          /\ ai_tasks[i].due_time = BadTime
          /\ ai_tasks[i].completed = 1
          /\ IsOpen(ai_tasks[j])
          /\ ai_tasks[j].due_time = Aware(5)
    /\ \E i \in 1..Len(medications), j \in 1..Len(medications) :
          /\ medications[i].next_due = NoTime
          /\ DoseState(medications[i]) = "not_given"
          /\ IsOpenDose(medications[j])
          /\ medications[j].next_due = Aware(9)

\* the value of the first rule <<keywords, hours>> one of whose keywords is
\* in the lower-cased text, `default` when there is none
FirstMatch(text, rules, default) ==
    LET hits == SelectSeq(rules, LAMBDA r : \E k \in r[1] : Contains(Lower(text), k))
    IN IF hits = <<>> THEN default ELSE hits[1][2]

\* the keyword tables as the claim words them
TaskRulesAsWorded ==
    << <<{"täglich"}, 24>>, <<{"alle 2h"}, 2>>, <<{"alle 4h"}, 4>>, <<{"alle 1h"}, 1>> >>
MedRulesAsWorded ==
    << <<{"alle 1h"}, 1>>, <<{"alle 2h"}, 2>>, <<{"alle 4h"}, 4>>,
       <<{"1x täglich"}, 24>>, <<{"2x täglich"}, 6>>, <<{"3x täglich"}, 8>>,
       <<{"morgens", "abends", "nachts"}, 24>> >>

\* the same tables with the spelling that has a blank after the number
TaskRulesEitherSpelling ==
    << <<{"täglich"}, 24>>, <<{"alle 2h", "alle 2 h"}, 2>>, <<{"alle 4h", "alle 4 h"}, 4>>,
       <<{"alle 1h", "alle 1 h"}, 1>> >>
MedRulesEitherSpelling ==
    << <<{"alle 1h", "alle 1 h"}, 1>>, <<{"alle 2h", "alle 2 h"}, 2>>,
       <<{"alle 4h", "alle 4 h"}, 4>>,
       <<{"1x täglich", "1 x täglich"}, 24>>, <<{"2x täglich", "2 x täglich"}, 6>>,
       <<{"3x täglich", "3 x täglich"}, 8>>,
       <<{"morgens", "abends", "nachts"}, 24>> >>

\* both resolvers agree with the tables on every stored text
ResolversFollow(taskRules, medRules) ==
    /\ \A i \in 1..Len(ai_tasks) :
          /\ get_default_interval_hours(ai_tasks[i].description)
                = FirstMatch(ai_tasks[i].description, taskRules, 4)
          /\ get_default_interval_hours(ai_tasks[i].description) > 0
    /\ \A i \in 1..Len(medications) :
          /\ get_med_interval_hours(medications[i].schedule)
                = FirstMatch(medications[i].schedule, medRules, 8)
          /\ get_med_interval_hours(medications[i].schedule) > 0

----------------------------------------------------------------------------
(* The clamping specification: one seeded patient (either of two);         *)
(* flowsheet entries whose vital signs lie below, at, inside, at the top   *)
(* of and above the plausible ranges, or are missing                       *)

ClampForms ==
    { Form(200, 0 - 5, 0 - 3, 30, 10, 40, NULL, 1, NULL, NULL, ""),
      Form(250, 0, 0, 40, 20, 50, NULL, NULL, NULL, NULL, ""),
      Form(370, 80, 16, 120, 80, 97, NULL, NULL, NULL, NULL, ""),
      Form(450, 250, 80, 250, 150, 100, NULL, NULL, NULL, NULL, ""),
      Form(500, 300, 90, 300, 200, 120, NULL, 2, NULL, NULL, ""),
      Form(NULL, NULL, NULL, NULL, NULL, NULL, NULL, NULL, NULL, NULL, ""),
      Form(500, NULL, 0 - 3, 120, 200, NULL, NULL, 3, NULL, NULL, "") }

NextClamp ==
    \/ MayTick /\ Tick
    \/ Room(MaxGeneratedId) /\ MayChart
         /\ \E p \in patients, f \in ClampForms : Flowsheet(p, f) /\ Within(MaxGeneratedId)

SpecClamp == InitPriorities /\ [][NextClamp]_vars

\* the plausible range of each vital sign (temperature in tenths of a degree)
PlausibleRange ==
    [temperature |-> <<250, 450>>, heart_rate |-> <<0, 250>>,
     respiration_rate |-> <<0, 80>>, systolic_bp |-> <<40, 250>>,
     diastolic_bp |-> <<20, 150>>, oxygen_sat |-> <<50, 100>>]

\* the bound nearest to an entered value, the value itself inside the range
Nearest(v, range) ==
    IF v < range[1] THEN range[1] ELSE IF v > range[2] THEN range[2] ELSE v

\* C31. Vitals are clamped, not rejected: every stored assessment has each
\* vital sign that is not missing inside its plausible range, and the
\* assessment a flowsheet entry stores holds, for every vital sign, the
\* bound nearest to an entered value that is out of range, the entered value
\* itself when it is in range, and nothing when nothing was entered.
C31_VitalsClamped ==
    [][ /\ \A i \in 1..Len(assessments'), k \in DOMAIN PlausibleRange :
              assessments'[i][k] # NULL =>
                 /\ PlausibleRange[k][1] <= assessments'[i][k]
                 /\ assessments'[i][k] <= PlausibleRange[k][2]
        /\ \A p \in patients, f \in ClampForms :
              Flowsheet(p, f) =>
                 /\ Len(assessments') = Len(assessments) + 1
                 /\ \A k \in DOMAIN PlausibleRange :
                       assessments'[Len(assessments')][k]
                          = IF f[k] = NULL THEN NULL ELSE Nearest(f[k], PlausibleRange[k])
      ]_vars

\* the latest entry gave every vital sign above its range (and pain 2) and
\* is stored with every vital sign at the top of its range
C31_Witness ==
    /\ lastOp.op = "flowsheet"
    /\ \E a \in {assessments[Len(assessments)]} :
          /\ a.pain = 2
          /\ a.temperature = 450 /\ a.heart_rate = 250 /\ a.respiration_rate = 80
          /\ a.systolic_bp = 250 /\ a.diastolic_bp = 150 /\ a.oxygen_sat = 100

----------------------------------------------------------------------------
(* The overlap specification: two seeded patients; two callers whose calls *)
(* of generate_priorities_and_tasks, made alone or at the end of a           *)
(* flowsheet entry, overlap statement by statement                          *)

\* flowsheets saved, and minutes passing, while calls overlap
MaxOverlapAssess == 2
MaxOverlapTime == 1

OverlapForms ==
    { Form(370, 80, NULL, 70, NULL, 85, NULL, NULL, NULL, NULL, ""),
      Form(390, 80, 16, 120, 80, 97, NULL, NULL, NULL, 6, "") }

NextOverlap ==
    \/ now < MaxOverlapTime /\ Tick
    \/ Room(MaxGeneratedId) /\ Len(assessments) < MaxOverlapAssess
         /\ \E c \in Callers, p \in patients, f \in OverlapForms :
              FlowsheetThenCall(c, p, f) /\ Within(MaxGeneratedId)
    \/ \E c \in Callers : CallReadAssessment(c)
    \/ \E c \in Callers : CallReadPriorities(c)
    \/ \E c \in Callers : CallReadNote(c)
    \/ \E c \in Callers : CallWrite(c) /\ Within(MaxGeneratedId)

SpecOverlap == InitAlerts /\ [][NextOverlap]_vars

\* a patient has two open tasks with one description, two alerts with one
\* text, two problems with one rank or more than three problems
Duplicated(p) ==
    \/ \E i, j \in 1..Len(ai_tasks) :
          /\ i # j
          /\ ai_tasks[i].patient = p /\ ai_tasks[j].patient = p
          /\ IsOpen(ai_tasks[i]) /\ IsOpen(ai_tasks[j])
          /\ ai_tasks[i].description = ai_tasks[j].description
    \/ \E i, j \in 1..Len(ai_alerts) :
          /\ i # j
          /\ ai_alerts[i].patient = p /\ ai_alerts[j].patient = p
          /\ ai_alerts[i].alert = ai_alerts[j].alert
    \/ \E i, j \in 1..Len(patient_priorities) :
          /\ i # j
          /\ patient_priorities[i].patient = p /\ patient_priorities[j].patient = p
          /\ patient_priorities[i].priority_rank = patient_priorities[j].priority_rank
    \/ ProblemCount(patient_priorities, p) > 3

\* a problem of the patient's latest assessment is missing from the
\* persisted problems although fewer than three are persisted
Dropped(p) ==
    /\ LatestAssessment(assessments, p) # <<>>
    /\ ProblemCount(patient_priorities, p) < 3
    /\ \E x \in Range(VitalsProblems(LatestAssessment(assessments, p)[1])) :
          x \notin ProblemSet(patient_priorities, p)

\* no call is under way
AllIdle == \A c \in Callers : calls[c].pc = "idle"

Overtaken(c) ==
    /\ calls[c].pc = "write"
    /\ calls[c].pr # OfPatient(patient_priorities, calls[c].patient)

----------------------------------------------------------------------------
(* Independence across patients *)

\* the requests for two patients, each on its connection: caller p is the
\* request for patient p

\* a flowsheet with the temperature only
IndependentForms == { Form(370, NULL, NULL, NULL, NULL, NULL, NULL, NULL, NULL, NULL, "") }

\* a seeded task of patient 2, a seeded medication of patient 1 and the
\* action on its doses
IndependentTaskIds == {4}
IndependentMedIds == {1}
IndependentActions == {"given"}

\* flowsheets saved, ai_tasks ids and medications ids handed out beside the calls
MaxIndependentAssess == 2
MaxIndependentId == 9
MaxIndependentMedId == 6

NextIndependent ==
    \/ Room(MaxIndependentId) /\ Len(assessments) < MaxIndependentAssess
         /\ \E p \in patients \cap Callers, f \in IndependentForms :
              FlowsheetThenCall(p, p, f) /\ Within(MaxIndependentId)
    \/ \E c \in Callers : CallReadAssessment(c)
    \/ \E c \in Callers : CallReadPriorities(c)
    \/ \E c \in Callers : CallReadNote(c)
    \/ \E c \in Callers : CallWrite(c) /\ Within(MaxIndependentId)
    \/ Room(MaxIndependentId) /\ \E id \in IndependentTaskIds : ToggleTask(id) /\ Within(MaxIndependentId)
    \/ \E id \in IndependentMedIds, action \in IndependentActions :
          RecordDose(id, action) /\ nextMedId' <= MaxIndependentMedId + 1
    \/ \E p \in patients : Rescore(p)

SpecIndependent == InitAlerts /\ [][NextIndependent]_vars

\* the rows of a patient in the tables the claim names
RowsOf(q) ==
    <<OfPatient(ai_alerts, q), OfPatient(patient_priorities, q), OfPatient(ai_tasks, q),
      OfPatient(medications, q), bezugspflege[q]>>

\* the patients of the rows with the id
PatientsOfId(rows, id) == {rows[i].patient : i \in {k \in 1..Len(rows) : rows[k].id = id}}

\* the step is the writes of a recompute call for p, or (no call moves) a
\* task toggle, a dose action or an assignment scoring of patient p
StepFor(p) ==
    \/ /\ \E c \in Callers : calls[c].pc = "write" /\ calls[c].patient = p /\ calls'[c].pc = "idle"
       /\ lastOp' = [op |-> "call", arg |-> p]
    \/ /\ calls' = calls
       /\ now' = now
       /\ \/ lastOp' = [op |-> "score", arg |-> p]
          \/ /\ lastOp'.op \in {"complete", "undo"}
             /\ p \in PatientsOfId(ai_tasks, lastOp'.arg)
          \/ /\ lastOp'.op \in {"given", "undo_given", "not_given", "undo_not_given"}
             /\ p \in PatientsOfId(medications, lastOp'.arg)

\* the step is a request for patient p: one of StepFor(p), or a flowsheet of p
RequestFor(p) ==
    \/ StepFor(p)
    \/ lastOp' = [op |-> "chart", arg |-> p] /\ Len(assessments') = Len(assessments) + 1

\* the rows a recompute call for p reads before it writes
ReadsOf(p) ==
    <<LatestAssessment(assessments, p), OfPatient(patient_priorities, p), OfPatient(nurse_notes, p)>>

\* what a call has read is what the tables hold now
Fresh(c) ==
    /\ calls[c].pc \in {"priorities", "note", "write"}
          => calls[c].as = LatestAssessment(assessments, calls[c].patient)
    /\ calls[c].pc \in {"note", "write"}
          => calls[c].pr = OfPatient(patient_priorities, calls[c].patient)
    /\ calls[c].pc = "write"
          => /\ Range(calls[c].spoken) = extract_problems_from_nurse_notes(nurse_notes, calls[c].patient)
             /\ Len(calls[c].spoken) = Cardinality(Range(calls[c].spoken))

\* the writes of caller c leave what generate_priorities_and_tasks, run
\* alone on the tables as they are, leaves
WritesAsAlone(c) ==
    \E r \in {generate_priorities_and_tasks(patient_priorities, ai_tasks, nextTaskId, ai_alerts,
                 assessments, nurse_notes, medications, calls[c].patient, calls[c].spoken, now)} :
        /\ patient_priorities' = r.priorities
        /\ ai_tasks' = r.tasks
        /\ nextTaskId' = r.next
        /\ ai_alerts' = r.alerts

\* C32. Independence across patients: a recompute, task toggle, dose action
\* or assignment scoring for patient p changes no alert, problem, task,
\* medication or assignment row of another patient q; and two recomputes for
\* different patients reach under every interleaving of their store
\* operations the state they reach one after the other: a step that is no
\* request for the patient of a call changes nothing of what the call has
\* read, and a call whose reads are unchanged writes what the recompute run
\* alone at that moment writes.
C32_IndependentAcrossPatients ==
    [][/\ \A p \in patients, q \in patients :
             (p # q /\ StepFor(p)) => RowsOf(q)' = RowsOf(q)
       /\ \A c \in Callers :
             (calls[c].pc # "idle" /\ ~RequestFor(calls[c].patient))
                => ReadsOf(calls[c].patient)' = ReadsOf(calls[c].patient)
       /\ \A c \in Callers :
             (calls[c].pc = "write" /\ calls'[c].pc = "idle" /\ Fresh(c)) => WritesAsAlone(c)]_vars

\* calls for the two patients have overlapped (the second read while the
\* first was about to write), the first has written, and the second, whose
\* reads are still what the tables hold, is about to
C32_Witness ==
    \E c \in Callers, d \in Callers :
        /\ calls[c].pc = "idle"
        /\ calls[d].pc = "write"
        /\ lastOp = [op |-> "call", arg |-> 3 - calls[d].patient]
        /\ calls[d].as # <<>>
        /\ Fresh(d)
        /\ OfPatient(patient_priorities, calls[d].patient) = <<>>
        /\ OfPatient(patient_priorities, lastOp.arg) # <<>>

----------------------------------------------------------------------------
(* The undo specification: one seeded patient; flowsheet entries that      *)
(* complete seeded tasks, and toggles                                      *)

\* ai_tasks ids handed out, undo specification
MaxUndoTaskId == 7

NextUndoScope ==
    \/ MayTick /\ Tick
    \/ Room(MaxUndoTaskId) /\ MayChart
         /\ \E p \in patients, f \in TaskForms : Flowsheet(p, f) /\ Within(MaxUndoTaskId)
    \/ \E id \in 1..MaxUndoTaskId : ToggleTask(id) /\ Within(MaxUndoTaskId)

SpecUndoScope == Init /\ [][NextUndoScope]_vars

\* the rows of tk whose id is in no row of tk2
RowsGone(tk, tk2) == {i \in 1..Len(tk) : tk[i].id \notin TaskIds(tk2)}

\* a due time that is a time later than the time ref, both read as the
\* clock time they record
DueAfter(d, ref) == Parses(d) /\ Parses(ref) /\ d.wall > ref.wall

\* C34. Scope of task undo: a toggle of a completed task reopens it and
\* deletes only open tasks of the same patient and description with a due
\* time strictly after the recorded due time of the undone task; completed
\* tasks, tasks due at or before that time, tasks of another description or
\* patient and the undone task itself stay as they were.
C34_UndoScope ==
    [][ \A i \in 1..Len(ai_tasks) :
          ( /\ lastOp' = [op |-> "undo", arg |-> ai_tasks[i].id]
            /\ ~IsOpen(ai_tasks[i])
            /\ now' = now )
          => /\ \A j \in RowsGone(ai_tasks, ai_tasks') :
                   /\ j # i
                   /\ IsOpen(ai_tasks[j])
                   /\ ai_tasks[j].patient = ai_tasks[i].patient
                   /\ ai_tasks[j].description = ai_tasks[i].description
                   /\ DueAfter(ai_tasks[j].due_time, ai_tasks[i].due_time)
             /\ \A j \in 1..Len(ai_tasks), k \in 1..Len(ai_tasks') :
                   ai_tasks'[k].id = ai_tasks[j].id
                      => ai_tasks'[k] = IF j = i THEN [ai_tasks[i] EXCEPT !.completed = 0]
                                        ELSE ai_tasks[j] ]_vars

\* the open rows of the (patient, drug, schedule) of the row med
OpenDosesOf(meds, med) ==
    {j \in 1..Len(meds) :
        /\ meds[j].patient = med.patient
        /\ meds[j].name = med.name
        /\ meds[j].schedule = med.schedule
        /\ IsOpenDose(meds[j])}

\* C35. Single open dose per medication: after any sequence of given and
\* not_given actions, on seeded and on spawned rows, every (patient, drug,
\* schedule), which the seed gives one open row, has exactly one open row.
C35_SingleOpenDose ==
    \A i \in 1..Len(medications) :
        Cardinality(OpenDosesOf(medications, medications[i])) = 1

C37_EveryLabelWeighted ==
    /\ \A i \in 1..Len(patient_priorities) :
          patient_priorities[i].problem \in DOMAIN PRIORITY_WEIGHTS
    /\ \A p \in patients :
          ~({SCHMERZEN, STARKE_SCHMERZEN} \subseteq ProblemSet(patient_priorities, p))

----------------------------------------------------------------------------
(* The documentation specification: one seeded patient, on bisoprolol; a   *)
(* selected nurse saves flowsheets and voice notes                         *)

NextVoice ==
    \/ MayTick /\ Tick
    \/ SelectNurse(1)
    \/ Room(MaxGeneratedId) /\ MayChart
         /\ \E p \in patients, f \in EarlierForms \cup NormalForms :
              Flowsheet(p, f) /\ Within(MaxGeneratedId)
    \/ Room(MaxGeneratedId) /\ MayChart
         /\ \E p \in patients, spoken_text \in SpokenTexts, selected \in SelectedLines :
              VoiceDoc(p, spoken_text, selected) /\ Within(MaxGeneratedId)

SpecVoice == Init /\ [][NextVoice]_vars

\* C38. Alerts follow the latest assessment only: after a flowsheet save or
\* a voice-note save the patient's alert set is the rule evaluation on the
\* assessment stored by that event; after a voice note, which stores an
\* assessment without vitals, it is empty, whatever the assessments and
\* alerts before.
C38_AlertsFollowStoredAssessment ==
    [][ \A p \in patients :
          ( /\ lastOp' \in {[op |-> "flowsheet", arg |-> p], [op |-> "voice_doc", arg |-> p]}
            /\ Len(assessments') = Len(assessments) + 1 )
          => /\ AlertSet(ai_alerts', p)
                  = Range(MatchedAlerts(assessments'[Len(assessments')], medications, p))
             /\ lastOp'.op = "voice_doc" => AlertSet(ai_alerts', p) = {} ]_vars

----------------------------------------------------------------------------
(* The regeneration specification: seeded patient 2; flowsheet entries    *)
(* with a note and no vital signs, recomputes and toggles of a seeded task *)

\* flowsheet forms: nothing charted but a note
NoteForms ==
    { Form(NULL, NULL, NULL, NULL, NULL, NULL, NULL, NULL, NULL, NULL, "Atemnot und Schmerzen"),
      Form(NULL, NULL, NULL, NULL, NULL, NULL, NULL, NULL, NULL, NULL, "verwirrt, fast gefallen") }

\* ai_tasks ids handed out, regeneration specification
MaxRegenerationId == 17

NextRegeneration ==
    \/ MayTick /\ Tick
    \/ Room(MaxRegenerationId) /\ \E p \in patients : Recompute(p) /\ Within(MaxRegenerationId)
    \/ Room(MaxRegenerationId) /\ MayChart
         /\ \E p \in patients, f \in NoteForms : Flowsheet(p, f) /\ Within(MaxRegenerationId)
    \/ Room(MaxRegenerationId) /\ ToggleTask(1) /\ Within(MaxRegenerationId)

SpecRegeneration == InitDoses /\ [][NextRegeneration]_vars

\* the task descriptions of the catalog of the problems persisted for p
PersistedCatalog(pr, p) ==
    UNION {Range(TaskDescriptions(x)) : x \in ProblemSet(pr, p)}

\* the rows of tk whose id is in a row of tk2
RowsKept(tk, tk2) == {i \in 1..Len(tk) : tk[i].id \in TaskIds(tk2)}

\* C39. Frame of task regeneration: a recompute deletes and inserts only
\* open tasks of its patient whose description is in the catalog of a
\* problem of the newly persisted set; every other row, completed or open,
\* stays as it was, the open tasks of a problem that is no longer persisted
\* included.
C39_RegenerationFrame ==
    [][ \A p \in patients :
          ( /\ lastOp' = [op |-> "recompute", arg |-> p]
            /\ now' = now
            /\ nextTaskId' > nextTaskId )
          => /\ \A i \in RowsGone(ai_tasks, ai_tasks') :
                   /\ IsOpen(ai_tasks[i])
                   /\ ai_tasks[i].patient = p
                   /\ ai_tasks[i].description \in PersistedCatalog(patient_priorities', p)
             /\ \A k \in RowsGone(ai_tasks', ai_tasks) :
                   /\ IsOpen(ai_tasks'[k])
                   /\ ai_tasks'[k].patient = p
                   /\ ai_tasks'[k].description \in PersistedCatalog(patient_priorities', p)
             /\ \A i \in RowsKept(ai_tasks, ai_tasks') :
                   \E k \in 1..Len(ai_tasks') : ai_tasks'[k] = ai_tasks[i]
             /\ \A i \in 1..Len(ai_tasks) :
                   ( ai_tasks[i].patient # p \/ ~IsOpen(ai_tasks[i])
                     \/ ai_tasks[i].description \notin PersistedCatalog(patient_priorities', p) )
                   => i \in RowsKept(ai_tasks, ai_tasks') ]_vars

\* a recompute has just run, and the patient has an open pain-scale task of
\* a pain problem that is no longer persisted, and a completed task
C39_Witness ==
    /\ lastOp.op = "recompute"
    /\ T_SCHMERZSKALA \notin PersistedCatalog(patient_priorities, lastOp.arg)
    /\ \E i, j \in 1..Len(ai_tasks) :
          /\ ai_tasks[i].patient = lastOp.arg
          /\ ai_tasks[i].description = T_SCHMERZSKALA
          /\ IsOpen(ai_tasks[i])
          /\ ai_tasks[j].patient = lastOp.arg
          /\ ~IsOpen(ai_tasks[j])

\* the row a manual toggle of the open row at index i inserts at time t
ToggledNext(tk, next, i, t) ==
    ToggleComplete([tasks |-> tk, next |-> next], i, t).tasks[Len(tk) + 1]

\* two task rows that are the same occurrence: patient, description, state
\* and the clock time of the due time
SameOccurrence(r, s) ==
    /\ r.patient = s.patient
    /\ r.description = s.description
    /\ r.completed = s.completed
    /\ Parses(r.due_time) /\ Parses(s.due_time)
    /\ r.due_time.wall = s.due_time.wall

\* the flowsheet row a charts the value that completes the description desc
\* by complete_and_schedule_next, and no vital sign
ChartsFor(a, desc) ==
    /\ ~charted_any_vitals(a)
    /\ \/ desc = T_SCHMERZ_TGL /\ a.pain # NULL
       \/ desc = T_GEWICHT_TGL /\ a.weight # NULL

\* C40. Both completion paths schedule the same next occurrence: when a
\* flowsheet entry completes an open task with description D and recorded
\* due time T by complete-and-schedule-next, it leaves the open next
\* occurrence that a manual toggle of that task would have left, due at
\* T + interval(D).
C40_SameNextOccurrence ==
    [][ \A i \in 1..Len(ai_tasks) :
          ( /\ lastOp' = [op |-> "flowsheet", arg |-> ai_tasks[i].patient]
            /\ now' = now
            /\ Len(assessments') = Len(assessments) + 1
            /\ IsOpen(ai_tasks[i])
            /\ Parses(ai_tasks[i].due_time)
            /\ ChartsFor(assessments'[Len(assessments')], ai_tasks[i].description) )
          => /\ \E k \in 1..Len(ai_tasks') :
                   /\ ai_tasks'[k].id = ai_tasks[i].id
                   /\ ai_tasks'[k] = [ai_tasks[i] EXCEPT !.completed = 1]
             /\ \E k \in 1..Len(ai_tasks') :
                   /\ ai_tasks'[k].id >= nextTaskId
                   /\ SameOccurrence(ai_tasks'[k], ToggledNext(ai_tasks, nextTaskId, i, now))
                   /\ ai_tasks'[k].due_time.wall
                         = ai_tasks[i].due_time.wall
                              + get_default_interval_hours(ai_tasks[i].description) ]_vars

\* the same statement for entries made at the recorded due time of the task
FlowsheetSameWhenDueNow ==
    [][ \A i \in 1..Len(ai_tasks) :
          ( /\ lastOp' = [op |-> "flowsheet", arg |-> ai_tasks[i].patient]
            /\ now' = now
            /\ Len(assessments') = Len(assessments) + 1
            /\ IsOpen(ai_tasks[i])
            /\ Parses(ai_tasks[i].due_time)
            /\ ai_tasks[i].due_time.wall = now
            /\ ChartsFor(assessments'[Len(assessments')], ai_tasks[i].description) )
          => \E k \in 1..Len(ai_tasks') :
                   /\ ai_tasks'[k].id >= nextTaskId
                   /\ SameOccurrence(ai_tasks'[k], ToggledNext(ai_tasks, nextTaskId, i, now)) ]_vars

====
